---- MODULE Spec2Model ----
(***************************************************************************)
(* Parking-spot reservation server: the in-memory store (MemStorage) and   *)
(* the booking routes that call it.                                        *)
(*                                                                         *)
(* Conventions of the model                                                *)
(*  - A JavaScript string that the code takes apart ("HH:MM") is a         *)
(*    sequence of one-character strings, so split/Number/padStart are      *)
(*    computed, not assumed.                                               *)
(*  - A JavaScript Date is the number of minutes since local midnight of   *)
(*    the day on which the handler runs (it may be negative or exceed one  *)
(*    day); daylight-saving shifts are not modelled.                       *)
(*  - Money is kept in cents; the seeded prices 3.0 and 2.5 and their      *)
(*    products with whole hours are exact in IEEE doubles as well.         *)
(***************************************************************************)
EXTENDS Integers, Sequences, FiniteSets

VARIABLES users, userIdCounter, parkingSpots, spotIdCounter, bookings, bookingIdCounter, last, pending

vars == <<users, userIdCounter, parkingSpots, spotIdCounter, bookings, bookingIdCounter, last, pending>>

store == <<users, userIdCounter, parkingSpots, spotIdCounter, bookings, bookingIdCounter>>

(***************************************************************************)
(* Bounds of the model and the inputs that requests are drawn from.        *)
(***************************************************************************)
MaxBookings == 2

\* handlers of POST /api/bookings that may be suspended at an await together
MaxInFlight == 2

Dates == {"2024-06-01", "2024-06-02"}

StartTimes ==
  { <<"1", "0", ":", "0", "0">>,
    <<"1", "1", ":", "3", "0">>,
    <<"1", "2", ":", "0", "0">> }

\* whole hours; 24 is the longest stay the booking form offers
Durations == {2, 24}

\* Spot ids in requests: 1 is A1 (seeded, available), 3 is A3 (seeded, then
\* marked unavailable), and no spot 13 exists.  The session's userId is 1, the
\* seeded admin, or 0 for a request without a session.

TenOClock == <<"1", "0", ":", "0", "0">>

\* request bodies of POST /api/bookings: every window on the first date, one
\* window on the second date, a spot that is switched off, a spot that does
\* not exist, and a body that lacks the duration field
BookingBodies ==
  [spotId : {1}, date : {"2024-06-01"},
   startTime : StartTimes, duration : Durations]
    \cup [spotId : {1, 3, 13},
          date : {"2024-06-02"}, startTime : {TenOClock}, duration : {2}]
    \cup [spotId : {1}, date : {"2024-06-01"}, startTime : {TenOClock}]

\* request bodies of PUT /api/admin/spots/:id for spot A1, prices in cents
SpotBodies ==
  [spotNumber : {"A1"}, level : {1}, type : {"STANDARD"},
   pricePerHour : {300}, isAvailable : BOOLEAN]

(***************************************************************************)
(* JavaScript string and Date primitives used by the code.                 *)
(***************************************************************************)
DigitChars == <<"0", "1", "2", "3", "4", "5", "6", "7", "8", "9">>

DigitValue(c) == (CHOOSE i \in 1..10 : DigitChars[i] = c) - 1

\* Number(s) for a string of decimal digits
RECURSIVE Number(_)
Number(s) ==
  IF s = <<>> THEN 0
  ELSE 10 * Number(SubSeq(s, 1, Len(s) - 1)) + DigitValue(s[Len(s)])

\* s.split(sep) for a one-character separator
RECURSIVE Split(_, _)
Split(s, sep) ==
  IF \A i \in 1..Len(s) : s[i] # sep THEN <<s>>
  ELSE LET k == CHOOSE i \in 1..Len(s) :
                  s[i] = sep /\ \A j \in 1..(i - 1) : s[j] # sep
       IN <<SubSeq(s, 1, k - 1)>> \o Split(SubSeq(s, k + 1, Len(s)), sep)

\* n.toString() for n >= 0
RECURSIVE NumberToString(_)
NumberToString(n) ==
  IF n < 10 THEN <<DigitChars[n + 1]>>
  ELSE NumberToString(n \div 10) \o <<DigitChars[(n % 10) + 1]>>

\* s.padStart(2, "0")
PadStart2(s) == IF Len(s) < 2 THEN <<"0">> \o s ELSE s

\* new Date(); d.setHours(h, m, 0, 0)
SetHoursMinutes(h, m) == h * 60 + m

\* d.setHours(h): the day and the minutes of d are kept
SetHours(d, h) == (d \div 1440) * 1440 + h * 60 + (d % 60)

GetHours(d) == (d \div 60) % 24

GetMinutes(d) == d % 60

\* d.getTime(), in milliseconds from the midnight the minutes are counted from
GetTime(d) == d * 60000

\* startTime.split(":").map(Number) followed by setHours(hours, minutes, 0, 0)
ParseClock(time) ==
  LET parts == Split(time, ":")
  IN SetHoursMinutes(Number(parts[1]), Number(parts[2]))

\* endDate = new Date(startDate); endDate.setHours(startDate.getHours() + duration)
AddHours(startDate, duration) == SetHours(startDate, GetHours(startDate) + duration)

\* `${getHours().toString().padStart(2, "0")}:${getMinutes().toString().padStart(2, "0")}`
FormatClock(d) ==
  PadStart2(NumberToString(GetHours(d))) \o <<":">>
    \o PadStart2(NumberToString(GetMinutes(d)))

(***************************************************************************)
(* E-mail addresses are sequences of one-character strings as well, so     *)
(* that toLowerCase is computed.  A bcrypt hash is kept as the password it *)
(* was made from: compareSync(plain, hash) holds exactly for that          *)
(* password, whatever the salt.                                            *)
(***************************************************************************)
UpperChars ==
  <<"A", "B", "C", "D", "E", "F", "G", "H", "I", "J", "K", "L", "M",
    "N", "O", "P", "Q", "R", "S", "T", "U", "V", "W", "X", "Y", "Z">>

LowerChars ==
  <<"a", "b", "c", "d", "e", "f", "g", "h", "i", "j", "k", "l", "m",
    "n", "o", "p", "q", "r", "s", "t", "u", "v", "w", "x", "y", "z">>

\* s.toLowerCase()
toLowerCase(s) ==
  [i \in 1..Len(s) |->
     IF \E k \in 1..Len(UpperChars) : UpperChars[k] = s[i]
       THEN LowerChars[CHOOSE k \in 1..Len(UpperChars) : UpperChars[k] = s[i]]
     ELSE s[i]]

hashPassword(password) == [bcrypt |-> password]

comparePassword(plain, hashed) == hashed.bcrypt = plain

\* "admin@parksmart.com", the address of the seeded administrator
AdminEmail ==
  <<"a", "d", "m", "i", "n", "@", "p", "a", "r", "k", "s", "m", "a", "r", "t",
    ".", "c", "o", "m">>

\* "ann@p.io", "Ann@p.io" and "bob@p.io"
AnnEmail == <<"a", "n", "n", "@", "p", ".", "i", "o">>

AnnEmailCapital == <<"A", "n", "n", "@", "p", ".", "i", "o">>

BobEmail == <<"b", "o", "b", "@", "p", ".", "i", "o">>

(***************************************************************************)
(* MemStorage: the state after the constructor and the seeding have run.   *)
(***************************************************************************)
Values(m) == {m[k] : k \in DOMAIN m}

\* createInitialParkingSpots: A1..A6 on level 1, B1..B6 on level 2;
\* A3, B2 and B6 are then marked unavailable
SeedSpotNumbers ==
  <<"A1", "A2", "A3", "A4", "A5", "A6", "B1", "B2", "B3", "B4", "B5", "B6">>

InitialParkingSpots ==
  [id \in 1..12 |->
     [id |-> id,
      spotNumber |-> SeedSpotNumbers[id],
      level |-> IF id <= 6 THEN 1 ELSE 2,
      type |-> IF id = 9 THEN "HANDICAPPED" ELSE "STANDARD",
      isAvailable |-> id \notin {3, 8, 12},
      pricePerHour |-> IF id = 9 THEN 250 ELSE 300]]

InitialUsers ==
  [id \in {1} |->
     [id |-> 1, name |-> "Admin User", email |-> AdminEmail,
      password |-> hashPassword("admin123"),
      isAdmin |-> TRUE, isActive |-> TRUE]]

NoBookings == [id \in {} |-> 0]

NoRequest ==
  [op |-> "none", sess |-> 0, body |-> <<>>, status |-> 0, message |-> "", created |-> 0]

\* a handler slot in which no request is running
Idle ==
  [pc |-> "idle", sess |-> 0, body |-> <<>>, spotFound |-> FALSE, pricePerHour |-> 0,
   isAvailable |-> FALSE, checkedAt |-> 0, status |-> 0, created |-> 0]

Init ==
  /\ users = InitialUsers
  /\ userIdCounter = 2
  /\ parkingSpots = InitialParkingSpots
  /\ spotIdCounter = 13
  /\ bookings = NoBookings
  /\ bookingIdCounter = 1
  /\ last = NoRequest
  /\ pending = [r \in 1..MaxInFlight |-> Idle]

(***************************************************************************)
(* MemStorage.getAvailableParkingSpots                                     *)
(***************************************************************************)
\* faulty variant: closed intervals, so that touching ranges count as overlapping
OverlapsRequestClosed(booking, startDate, endDate) ==
  LET bookingStart == ParseClock(booking.startTime)
      bookingEnd == ParseClock(booking.endTime)
  IN /\ GetTime(startDate) <= GetTime(bookingEnd)
     /\ GetTime(endDate) >= GetTime(bookingStart)

\* faulty variant: only the end of the requested range is compared
OverlapsRequestEndOnly(booking, startDate, endDate) ==
  GetTime(endDate) > GetTime(ParseClock(booking.startTime))

\* the overlap test of one stored booking against the requested range
OverlapsRequest(booking, startDate, endDate) ==
  LET bookingStart == ParseClock(booking.startTime)
      bookingEnd == ParseClock(booking.endTime)
      ourStart == GetTime(startDate)
      ourEnd == GetTime(endDate)
      theirStart == GetTime(bookingStart)
      theirEnd == GetTime(bookingEnd)
  IN ourStart < theirEnd /\ ourEnd > theirStart

\* faulty variant: the bookings are not looked at
SpotIsFreeIgnoringBookings(spot, date, startDate, endDate) == spot.isAvailable

\* faulty variant: the isAvailable flag is not looked at
SpotIsFreeIgnoringFlag(spot, date, startDate, endDate) ==
  \A booking \in Values(bookings) :
    ~(/\ booking.spotId = spot.id
      /\ booking.date = date
      /\ booking.status # "CANCELLED"
      /\ OverlapsRequest(booking, startDate, endDate))

\* faulty variant: cancelled bookings keep their window
SpotIsFreeCountingCancelled(spot, date, startDate, endDate) ==
  /\ spot.isAvailable
  /\ \A booking \in Values(bookings) :
       ~(/\ booking.spotId = spot.id
         /\ booking.date = date
         /\ OverlapsRequest(booking, startDate, endDate))

\* the filter applied to each spot
SpotIsFree(spot, date, startDate, endDate) ==
  /\ spot.isAvailable
  /\ LET overlappingBookings ==
           { booking \in Values(bookings) :
               /\ booking.spotId = spot.id
               /\ booking.date = date
               /\ booking.status # "CANCELLED"
               /\ OverlapsRequest(booking, startDate, endDate) }
     IN Cardinality(overlappingBookings) = 0

getAvailableParkingSpots(date, startTime, duration) ==
  LET startDate == ParseClock(startTime)
      endDate == AddHours(startDate, duration)
  IN { spot \in Values(parkingSpots) : SpotIsFree(spot, date, startDate, endDate) }

(***************************************************************************)
(* Middleware and POST /api/bookings                                       *)
(***************************************************************************)
Response(op, sess, body, status, message, created) ==
  [op |-> op, sess |-> sess, body |-> body, status |-> status,
   message |-> message, created |-> created]

\* authMiddleware: the status it answers with, 0 when it calls next()
authMiddleware(sess) ==
  IF sess = 0 THEN 401
  ELSE IF sess \notin DOMAIN users THEN 401
  ELSE IF ~users[sess].isActive THEN 403
  ELSE 0

\* adminMiddleware, run after authMiddleware let the request through
adminMiddleware(sess) == IF ~users[sess].isAdmin THEN 403 ELSE 0

\* insertBookingSchema.pick({spotId, date, startTime, duration}).safeParse(body):
\* every picked column is notNull, so each field must be present
BookingSchemaValid(body) ==
  {"spotId", "date", "startTime", "duration"} \subseteq DOMAIN body

\* the end time the route stores with the booking
RouteEndTime(startTime, duration) ==
  LET startDate == ParseClock(startTime)
      endDate == AddHours(startDate, duration)
  IN FormatClock(endDate)

\* faulty variant: the hourly price, whatever the duration
RouteTotalPriceOneHour(spot, duration) == spot.pricePerHour

RouteTotalPrice(spot, duration) == spot.pricePerHour * duration

\* faulty variant: the booking waits for an approval
RouteBookingDataPending(userId, spot, body) ==
  [userId |-> userId, spotId |-> body.spotId, date |-> body.date,
   startTime |-> body.startTime,
   endTime |-> RouteEndTime(body.startTime, body.duration),
   duration |-> body.duration,
   totalPrice |-> RouteTotalPrice(spot, body.duration),
   status |-> "PENDING"]

\* the record the route hands to storage.createBooking
RouteBookingData(userId, spot, body) ==
  [userId |-> userId,
   spotId |-> body.spotId,
   date |-> body.date,
   startTime |-> body.startTime,
   endTime |-> RouteEndTime(body.startTime, body.duration),
   duration |-> body.duration,
   totalPrice |-> RouteTotalPrice(spot, body.duration),
   status |-> "CONFIRMED"]

\* MemStorage.createBooking: the bookings map after the insert
createBooking(bookingData, now) ==
  LET id == bookingIdCounter
      booking ==
        [id |-> id,
         userId |-> bookingData.userId,
         spotId |-> bookingData.spotId,
         date |-> bookingData.date,
         startTime |-> bookingData.startTime,
         endTime |-> bookingData.endTime,
         duration |-> bookingData.duration,
         totalPrice |-> bookingData.totalPrice,
         status |-> bookingData.status,
         createdAt |-> now]
  IN [k \in DOMAIN bookings \cup {id} |-> IF k = id THEN booking ELSE bookings[k]]

\* the availability check of the route
RouteSpotAvailable(body) ==
  LET availableSpots == getAvailableParkingSpots(body.date, body.startTime, body.duration)
  IN \E s \in availableSpots : s.id = body.spotId

\* faulty variant: availability is checked before existence
PostBookingRejectionAvailabilityFirst(body) ==
  IF ~BookingSchemaValid(body) THEN "Invalid booking data"
  ELSE IF ~RouteSpotAvailable(body)
    THEN "This spot is not available for the selected time slot"
  ELSE IF body.spotId \notin DOMAIN parkingSpots THEN "Parking spot not found"
  ELSE ""

\* the first check of the route that answers, "" when none does
PostBookingRejection(body) ==
  IF ~BookingSchemaValid(body) THEN "Invalid booking data"
  ELSE IF body.spotId \notin DOMAIN parkingSpots THEN "Parking spot not found"
  ELSE IF ~RouteSpotAvailable(body)
    THEN "This spot is not available for the selected time slot"
  ELSE ""

RejectionStatus(message) == IF message = "Parking spot not found" THEN 404 ELSE 400

PostBooking(sess, body, now) ==
  /\ UNCHANGED pending
  /\ LET auth == authMiddleware(sess)
     IN IF auth # 0
       THEN /\ last' = Response("postBooking", sess, body, auth, "", 0)
            /\ UNCHANGED store
     ELSE LET rejection == PostBookingRejection(body)
          IN IF rejection # ""
               THEN /\ last' = Response("postBooking", sess, body,
                                        RejectionStatus(rejection), rejection, 0)
                    /\ UNCHANGED store
             ELSE /\ bookingIdCounter <= MaxBookings
                  /\ bookings' =
                       createBooking(
                         RouteBookingData(sess, parkingSpots[body.spotId], body), now)
                  /\ bookingIdCounter' = bookingIdCounter + 1
                  /\ last' = Response("postBooking", sess, body, 201, "", bookingIdCounter)
                  /\ UNCHANGED <<users, userIdCounter, parkingSpots, spotIdCounter>>

(***************************************************************************)
(* DELETE /api/bookings/:id                                                *)
(***************************************************************************)
\* faulty variant: cancelling also clears the price
updateBookingRefunding(id, bookingData) ==
  IF id \notin DOMAIN bookings THEN bookings
  ELSE [bookings EXCEPT ![id] =
          [@ EXCEPT !.status = bookingData.status, !.totalPrice = 0]]

\* MemStorage.updateBooking: the bookings map after the merge; id and
\* createdAt are kept
updateBooking(id, bookingData) ==
  IF id \notin DOMAIN bookings THEN bookings
  ELSE LET booking == bookings[id]
           updatedBooking ==
             [f \in DOMAIN booking |->
                IF f \in {"id", "createdAt"} THEN booking[f]
                ELSE IF f \in DOMAIN bookingData THEN bookingData[f]
                ELSE booking[f]]
       IN [bookings EXCEPT ![id] = updatedBooking]

\* faulty variant: the record is removed
deleteBookingRemoving(id) == [k \in DOMAIN bookings \ {id} |-> bookings[k]]

\* MemStorage.deleteBooking: marks the booking cancelled instead of removing it
deleteBooking(id) ==
  IF id \notin DOMAIN bookings THEN bookings
  ELSE updateBooking(id, [status |-> "CANCELLED"])

\* faulty variant: the status is checked before the ownership
DeleteBookingRejectionStateFirst(sess, bookingId) ==
  IF bookingId \notin DOMAIN bookings THEN "Booking not found"
  ELSE IF bookings[bookingId].status \in {"COMPLETED", "CANCELLED"}
    THEN "Booking cannot be cancelled"
  ELSE IF bookings[bookingId].userId # sess /\ ~users[sess].isAdmin
    THEN "Not authorized to cancel this booking"
  ELSE ""

DeleteBookingRejection(sess, bookingId) ==
  IF bookingId \notin DOMAIN bookings THEN "Booking not found"
  ELSE IF bookings[bookingId].userId # sess /\ ~users[sess].isAdmin
    THEN "Not authorized to cancel this booking"
  ELSE IF bookings[bookingId].status \in {"COMPLETED", "CANCELLED"}
    THEN "Booking cannot be cancelled"
  ELSE ""

DeleteRejectionStatus(message) ==
  IF message = "Booking not found" THEN 404
  ELSE IF message = "Not authorized to cancel this booking" THEN 403
  ELSE 400

DeleteBooking(sess, bookingId) ==
  /\ UNCHANGED pending
  /\ LET auth == authMiddleware(sess)
         body == [id |-> bookingId]
     IN IF auth # 0
       THEN /\ last' = Response("deleteBooking", sess, body, auth, "", 0)
            /\ UNCHANGED store
     ELSE LET rejection == DeleteBookingRejection(sess, bookingId)
          IN IF rejection # ""
               THEN /\ last' = Response("deleteBooking", sess, body,
                                        DeleteRejectionStatus(rejection), rejection, 0)
                    /\ UNCHANGED store
             ELSE /\ bookings' = deleteBooking(bookingId)
                  /\ last' = Response("deleteBooking", sess, body, 200,
                                      "Booking cancelled successfully", 0)
                  /\ UNCHANGED <<users, userIdCounter, parkingSpots, spotIdCounter, bookingIdCounter>>

(***************************************************************************)
(* PUT /api/admin/spots/:id                                                *)
(***************************************************************************)
\* MemStorage.getParkingSpotByNumber finds a spot
spotNumberTaken(spotNumber) ==
  \E spot \in Values(parkingSpots) : spot.spotNumber = spotNumber

\* MemStorage.updateParkingSpot: the spots map after the merge; id is kept
updateParkingSpot(id, spotData) ==
  IF id \notin DOMAIN parkingSpots THEN parkingSpots
  ELSE LET spot == parkingSpots[id]
           updatedSpot ==
             [f \in DOMAIN spot |->
                IF f = "id" THEN spot.id
                ELSE IF f \in DOMAIN spotData THEN spotData[f]
                ELSE spot[f]]
       IN [parkingSpots EXCEPT ![id] = updatedSpot]

\* the z.object({...}).safeParse(req.body) of the route
SpotBodyValid(body) ==
  /\ {"spotNumber", "level", "type", "pricePerHour", "isAvailable"} \subseteq DOMAIN body
  /\ body.spotNumber # ""
  /\ body.level >= 1
  /\ body.pricePerHour >= 0
  /\ body.isAvailable \in BOOLEAN

PutSpotRejection(spotId, body) ==
  IF spotId \notin DOMAIN parkingSpots THEN "Parking spot not found"
  ELSE IF ~SpotBodyValid(body) THEN "Invalid spot data"
  ELSE IF body.spotNumber # parkingSpots[spotId].spotNumber
          /\ spotNumberTaken(body.spotNumber)
    THEN "A spot with this number already exists"
  ELSE ""

PutRejectionStatus(message) ==
  IF message = "Parking spot not found" THEN 404
  ELSE IF message = "A spot with this number already exists" THEN 409
  ELSE 400

\* faulty variant: an accepted edit recomputes the price of the spot's bookings
PutSpotRepricing(sess, spotId, body) ==
  /\ UNCHANGED pending
  /\ LET request == [id |-> spotId, spot |-> body]
     IN IF authMiddleware(sess) = 0 /\ adminMiddleware(sess) = 0
             /\ PutSpotRejection(spotId, body) = ""
          THEN /\ parkingSpots' = updateParkingSpot(spotId, body)
               /\ bookings' =
                    [id \in DOMAIN bookings |->
                       IF bookings[id].spotId = spotId
                         THEN [bookings[id] EXCEPT
                                 !.totalPrice = body.pricePerHour * bookings[id].duration]
                       ELSE bookings[id]]
               /\ last' = Response("putSpot", sess, request, 200, "", 0)
               /\ UNCHANGED <<users, userIdCounter, spotIdCounter, bookingIdCounter>>
        ELSE /\ last' = Response("putSpot", sess, request, 400, "", 0)
             /\ UNCHANGED store

PutSpot(sess, spotId, body) ==
  /\ UNCHANGED pending
  /\ LET auth == authMiddleware(sess)
         request == [id |-> spotId, spot |-> body]
     IN IF auth # 0
       THEN /\ last' = Response("putSpot", sess, request, auth, "", 0)
            /\ UNCHANGED store
     ELSE IF adminMiddleware(sess) # 0
       THEN /\ last' = Response("putSpot", sess, request, adminMiddleware(sess), "", 0)
            /\ UNCHANGED store
     ELSE LET rejection == PutSpotRejection(spotId, body)
          IN IF rejection # ""
               THEN /\ last' = Response("putSpot", sess, request,
                                        PutRejectionStatus(rejection), rejection, 0)
                    /\ UNCHANGED store
             ELSE /\ parkingSpots' = updateParkingSpot(spotId, body)
                  /\ last' = Response("putSpot", sess, request, 200, "", 0)
                  /\ UNCHANGED <<users, userIdCounter, spotIdCounter, bookings, bookingIdCounter>>

(***************************************************************************)
(* Requests are served one at a time, each handler running to its end.     *)
(* A booking's createdAt is the count of bookings created before it: one   *)
(* clock tick per insert.                                                  *)
(***************************************************************************)
Next ==
  \/ \E body \in BookingBodies : PostBooking(1, body, bookingIdCounter)
  \/ PostBooking(0, CHOOSE body \in BookingBodies : TRUE, bookingIdCounter)
  \/ \E bookingId \in 1..(MaxBookings + 1) : DeleteBooking(1, bookingId)
  \/ \E body \in SpotBodies : PutSpot(1, 1, body)
  \/ PutSpot(1, 13, CHOOSE body \in SpotBodies : TRUE)

Spec == Init /\ [][Next]_vars

(***************************************************************************)
(* POST /api/bookings with its awaits as points where another request may  *)
(* run.  IStorage returns promises and the route awaits each call:         *)
(* getParkingSpot, getAvailableParkingSpots, createBooking.  A storage     *)
(* call reads or writes the store when it is made; the handler goes on     *)
(* with the result when it is resumed.  checkedAt records the value of     *)
(* bookingIdCounter at the availability read, for the properties only.     *)
(* The windows of these requests all end before midnight.                  *)
(***************************************************************************)
RaceBodies ==
  [spotId : {1, 13}, date : {"2024-06-01"},
   startTime : StartTimes, duration : {2}]

\* the request arrives: middleware, validation, then the call of getParkingSpot
BeginPostBooking(r, sess, body) ==
  /\ pending[r].pc = "idle"
  /\ authMiddleware(sess) = 0
  /\ BookingSchemaValid(body)
  /\ pending' =
       [pending EXCEPT ![r] =
          [Idle EXCEPT
             !.pc = "awaitSpot", !.sess = sess, !.body = body,
             !.spotFound = body.spotId \in DOMAIN parkingSpots,
             !.pricePerHour =
               IF body.spotId \in DOMAIN parkingSpots
                 THEN parkingSpots[body.spotId].pricePerHour ELSE 0]]
  /\ UNCHANGED <<store, last>>

\* resumed with the spot: 404, or the call of getAvailableParkingSpots
ResumeWithSpot(r) ==
  /\ pending[r].pc = "awaitSpot"
  /\ pending' =
       [pending EXCEPT ![r] =
          IF ~pending[r].spotFound
            THEN [@ EXCEPT !.pc = "done", !.status = 404]
          ELSE [@ EXCEPT !.pc = "awaitAvailable",
                         !.isAvailable = RouteSpotAvailable(pending[r].body),
                         !.checkedAt = bookingIdCounter]]
  /\ UNCHANGED <<store, last>>

\* resumed with the available spots: 400, or the call of createBooking
ResumeWithAvailable(r) ==
  /\ pending[r].pc = "awaitAvailable"
  /\ IF ~pending[r].isAvailable
       THEN /\ pending' = [pending EXCEPT ![r] = [@ EXCEPT !.pc = "done", !.status = 400]]
            /\ UNCHANGED <<store, last>>
     ELSE /\ bookingIdCounter <= MaxBookings
          /\ bookings' =
               createBooking(
                 RouteBookingData(pending[r].sess,
                                  [pricePerHour |-> pending[r].pricePerHour],
                                  pending[r].body),
                 bookingIdCounter)
          /\ bookingIdCounter' = bookingIdCounter + 1
          /\ pending' =
               [pending EXCEPT ![r] =
                  [@ EXCEPT !.pc = "awaitCreate", !.created = bookingIdCounter]]
          /\ UNCHANGED <<users, userIdCounter, parkingSpots, spotIdCounter, last>>

\* resumed with the stored booking: 201
ResumeWithBooking(r) ==
  /\ pending[r].pc = "awaitCreate"
  /\ pending' = [pending EXCEPT ![r] = [@ EXCEPT !.pc = "done", !.status = 201]]
  /\ UNCHANGED <<store, last>>

NextRace ==
  \/ \E r \in 1..MaxInFlight, body \in RaceBodies :
       BeginPostBooking(r, 1, body)
  \/ \E r \in 1..MaxInFlight : ResumeWithSpot(r)
  \/ \E r \in 1..MaxInFlight : ResumeWithAvailable(r)
  \/ \E r \in 1..MaxInFlight : ResumeWithBooking(r)

SpecRace == Init /\ [][NextRace]_vars

(***************************************************************************)
(* POST /api/auth/register                                                 *)
(***************************************************************************)
\* request bodies of the registration: two addresses, and a body without a
\* password.  Names have at least two characters, passwords at least six,
\* addresses are well-formed.
RegisterBodies ==
  [name : {"Ann"}, email : {AnnEmail}, password : {"secret1"}]
    \cup [name : {"Bob"}, email : {BobEmail}, password : {"secret2"}]
    \cup [name : {"Bob"}, email : {BobEmail}]

\* registerSchema.safeParse(body) for bodies whose values are as above
RegisterSchemaValid(body) == {"name", "email", "password"} \subseteq DOMAIN body

\* faulty variant: the addresses are compared as they are written
getUserByEmailExact(email) == { user \in Values(users) : user.email = email }

\* MemStorage.getUserByEmail: the users whose address matches
getUserByEmail(email) ==
  { user \in Values(users) : toLowerCase(user.email) = toLowerCase(email) }

\* MemStorage.createUser: the users map after the insert
createUser(userData) ==
  LET id == userIdCounter
      user ==
        [id |-> id, name |-> userData.name, email |-> userData.email,
         password |-> hashPassword(userData.password),
         isAdmin |-> userData.isAdmin, isActive |-> userData.isActive]
  IN [k \in DOMAIN users \cup {id} |-> IF k = id THEN user ELSE users[k]]

Register(body) ==
  /\ UNCHANGED pending
  /\ IF ~RegisterSchemaValid(body)
       THEN /\ last' = Response("register", 0, body, 400, "Invalid registration data", 0)
            /\ UNCHANGED store
     ELSE IF getUserByEmail(body.email) # {}
       THEN /\ last' = Response("register", 0, body, 409,
                                "A user with this email already exists", 0)
            /\ UNCHANGED store
     ELSE /\ users' =
               createUser([name |-> body.name, email |-> body.email,
                           password |-> body.password,
                           isAdmin |-> FALSE, isActive |-> TRUE])
          /\ userIdCounter' = userIdCounter + 1
          /\ last' = Response("register", userIdCounter, body, 201, "", userIdCounter)
          /\ UNCHANGED <<parkingSpots, spotIdCounter, bookings, bookingIdCounter>>

(***************************************************************************)
(* DELETE /api/admin/bookings/:id                                          *)
(***************************************************************************)
\* faulty variant: the status is not checked
AdminDeleteBookingRejectionNoStateCheck(bookingId) ==
  IF bookingId \notin DOMAIN bookings THEN "Booking not found" ELSE ""

AdminDeleteBookingRejection(bookingId) ==
  IF bookingId \notin DOMAIN bookings THEN "Booking not found"
  ELSE IF bookings[bookingId].status \in {"COMPLETED", "CANCELLED"}
    THEN "Booking cannot be cancelled"
  ELSE ""

AdminDeleteBooking(sess, bookingId) ==
  /\ UNCHANGED pending
  /\ LET auth == authMiddleware(sess)
         body == [id |-> bookingId]
     IN IF auth # 0
       THEN /\ last' = Response("adminDeleteBooking", sess, body, auth, "", 0)
            /\ UNCHANGED store
     ELSE IF adminMiddleware(sess) # 0
       THEN /\ last' = Response("adminDeleteBooking", sess, body,
                                adminMiddleware(sess), "Admin access required", 0)
            /\ UNCHANGED store
     ELSE LET rejection == AdminDeleteBookingRejection(bookingId)
          IN IF rejection # ""
               THEN /\ last' = Response("adminDeleteBooking", sess, body,
                                        DeleteRejectionStatus(rejection), rejection, 0)
                    /\ UNCHANGED store
             ELSE /\ bookings' = deleteBooking(bookingId)
                  /\ last' = Response("adminDeleteBooking", sess, body, 200,
                                      "Booking cancelled successfully", 0)
                  /\ UNCHANGED <<users, userIdCounter, parkingSpots, spotIdCounter, bookingIdCounter>>

(***************************************************************************)
(* DELETE /api/admin/spots/:id                                             *)
(***************************************************************************)
\* faulty variant: cancelled bookings do not keep the spot
hasBookingsNotCancelled(id) ==
  \E booking \in Values(bookings) :
    booking.spotId = id /\ booking.status # "CANCELLED"

\* the test of MemStorage.deleteParkingSpot
hasBookings(id) == \E booking \in Values(bookings) : booking.spotId = id

\* faulty variant: the spot is removed whether or not bookings name it
deleteParkingSpotUnchecked(id) ==
  [k \in DOMAIN parkingSpots \ {id} |-> parkingSpots[k]]

\* MemStorage.deleteParkingSpot: the spots map afterwards
deleteParkingSpot(id) ==
  IF hasBookings(id) THEN parkingSpots
  ELSE [k \in DOMAIN parkingSpots \ {id} |-> parkingSpots[k]]

\* the value MemStorage.deleteParkingSpot returns
deleteParkingSpotResult(id) ==
  IF hasBookings(id) THEN FALSE ELSE id \in DOMAIN parkingSpots

DeleteSpot(sess, spotId) ==
  /\ UNCHANGED pending
  /\ LET auth == authMiddleware(sess)
         body == [id |-> spotId]
     IN IF auth # 0
       THEN /\ last' = Response("deleteSpot", sess, body, auth, "", 0)
            /\ UNCHANGED store
     ELSE IF adminMiddleware(sess) # 0
       THEN /\ last' = Response("deleteSpot", sess, body,
                                adminMiddleware(sess), "Admin access required", 0)
            /\ UNCHANGED store
     ELSE IF spotId \notin DOMAIN parkingSpots
       THEN /\ last' = Response("deleteSpot", sess, body, 404,
                                "Parking spot not found", 0)
            /\ UNCHANGED store
     ELSE /\ parkingSpots' = deleteParkingSpot(spotId)
          /\ last' =
               IF deleteParkingSpotResult(spotId)
                 THEN Response("deleteSpot", sess, body, 200,
                               "Parking spot deleted successfully", 0)
               ELSE Response("deleteSpot", sess, body, 400,
                             "Cannot delete spot with active bookings", 0)
          /\ UNCHANGED <<users, userIdCounter, spotIdCounter, bookings, bookingIdCounter>>

(***************************************************************************)
(* MemStorage.getDashboardStats.  A Map lists its values in the order the  *)
(* keys were first set, which for the bookings is the order of their ids.  *)
(* today is the date part of new Date().toISOString(); createdAt is kept   *)
(* as the millisecond count that new Date(createdAt).getTime() gives back. *)
(***************************************************************************)
\* the elements of a finite set of numbers, ascending
RECURSIVE Ascending(_)
Ascending(ids) ==
  IF ids = {} THEN <<>>
  ELSE LET least == CHOOSE i \in ids : \A j \in ids : i <= j
       IN <<least>> \o Ascending(ids \ {least})

\* listBookings: every booking with its user and its spot, each a set that is
\* empty when the lookup gives undefined
listBookings ==
  LET ids == Ascending(DOMAIN bookings)
  IN [k \in 1..Len(ids) |->
        [booking |-> bookings[ids[k]],
         user |-> { u \in Values(users) : u.id = bookings[ids[k]].userId },
         spot |-> { p \in Values(parkingSpots) : p.id = bookings[ids[k]].spotId }]]

\* array.filter(keep) with keep given as the set of the elements to keep
RECURSIVE Filter(_, _)
Filter(seq, kept) ==
  IF seq = <<>> THEN <<>>
  ELSE (IF Head(seq) \in kept THEN <<Head(seq)>> ELSE <<>>) \o Filter(Tail(seq), kept)

Elements(seq) == { seq[k] : k \in 1..Len(seq) }

\* todayBookings.reduce((sum, booking) => sum + booking.totalPrice, 0)
RECURSIVE SumTotalPrice(_)
SumTotalPrice(seq) ==
  IF seq = <<>> THEN 0
  ELSE SumTotalPrice(SubSeq(seq, 1, Len(seq) - 1)) + seq[Len(seq)].booking.totalPrice

\* the place of e in a sequence already sorted by descending createdAt: after
\* every element that does not compare greater, as a stable sort leaves it
RECURSIVE InsertByCreatedAtDesc(_, _)
InsertByCreatedAtDesc(sorted, e) ==
  IF sorted = <<>> THEN <<e>>
  ELSE IF e.booking.createdAt - Head(sorted).booking.createdAt > 0
    THEN <<e>> \o sorted
  ELSE <<Head(sorted)>> \o InsertByCreatedAtDesc(Tail(sorted), e)

\* array.sort((a, b) => time(b.createdAt) - time(a.createdAt)), which is stable
RECURSIVE SortByCreatedAtDesc(_)
SortByCreatedAtDesc(seq) ==
  IF seq = <<>> THEN <<>>
  ELSE InsertByCreatedAtDesc(SortByCreatedAtDesc(SubSeq(seq, 1, Len(seq) - 1)),
                             seq[Len(seq)])

\* array.slice(0, n)
Slice0(seq, n) == SubSeq(seq, 1, IF Len(seq) < n THEN Len(seq) ELSE n)

\* faulty variant: every status but CONFIRMED is shown as cancelled
StatusLabelConfirmedOnly(status) ==
  IF status = "CONFIRMED" THEN "Active" ELSE "Cancelled"

StatusLabel(status) ==
  IF status = "CONFIRMED" THEN "Active"
  ELSE IF status = "PENDING" THEN "Upcoming"
  ELSE IF status = "COMPLETED" THEN "Completed"
  ELSE "Cancelled"

\* faulty variant: cancelled bookings are counted as active
IsActiveBookingAnyStatus(e) == TRUE

IsActiveBooking(e) == e.booking.status = "CONFIRMED" \/ e.booking.status = "PENDING"

\* faulty variant: cancelled bookings add to the revenue
IsTodayBookingAnyStatus(e, today) == e.booking.date = today

IsTodayBooking(e, today) == e.booking.date = today /\ e.booking.status # "CANCELLED"

\* faulty variant: the spots that hold a non-cancelled booking
IsOccupiedSpotByBookings(spot) ==
  \E booking \in Values(bookings) :
    booking.spotId = spot.id /\ booking.status # "CANCELLED"

IsOccupiedSpot(spot) == ~spot.isAvailable

\* faulty variant: cancelled bookings are counted in their hour
StartsInHourAnyStatus(e, i) == Number(Split(e.booking.startTime, ":")[1]) = i

StartsInHour(e, i) ==
  IF e.booking.status = "CANCELLED" THEN FALSE
  ELSE LET startHour == Number(Split(e.booking.startTime, ":")[1])
       IN startHour = i

getDashboardStats(today) ==
  LET allUsers == Values(users)
      allBookings == listBookings
      allSpots == Values(parkingSpots)
      activeBookings ==
        Filter(allBookings, { e \in Elements(allBookings) : IsActiveBooking(e) })
      occupiedSpots == Cardinality({ spot \in allSpots : IsOccupiedSpot(spot) })
      todayBookings ==
        Filter(allBookings, { e \in Elements(allBookings) : IsTodayBooking(e, today) })
      revenueToday == SumTotalPrice(todayBookings)
      occupancyByHour ==
        [k \in 1..24 |->
           LET i == k - 1
               hour == PadStart2(NumberToString(i))
               count ==
                 Len(Filter(allBookings,
                            { e \in Elements(allBookings) : StartsInHour(e, i) }))
           IN [hour |-> hour \o <<":", "0", "0">>, count |-> count]]
      resolved ==
        Filter(allBookings,
               { e \in Elements(allBookings) : e.user # {} /\ e.spot # {} })
      recent == Slice0(SortByCreatedAtDesc(resolved), 5)
      recentBookings ==
        [k \in 1..Len(recent) |->
           [id |-> recent[k].booking.id,
            userName |-> (CHOOSE u \in recent[k].user : TRUE).name,
            spotNumber |-> (CHOOSE p \in recent[k].spot : TRUE).spotNumber,
            date |-> recent[k].booking.date,
            startTime |-> recent[k].booking.startTime,
            status |-> StatusLabel(recent[k].booking.status)]]
  IN [totalUsers |-> Cardinality(allUsers),
      activeBookings |-> Len(activeBookings),
      occupiedSpots |-> occupiedSpots,
      revenueToday |-> revenueToday,
      occupancyByHour |-> occupancyByHour,
      recentBookings |-> recentBookings]

(***************************************************************************)
(* The routes of the users and of the administrator, served one request at *)
(* a time.  A session exists for every registered user (registration and   *)
(* login both open one).  User 1 is the seeded administrator; the user     *)
(* registered first (id 2) books, the one registered second (id 3) does    *)
(* not.  Spot 13 does not exist.                                           *)
(***************************************************************************)
TwelveOClock == <<"1", "2", ":", "0", "0">>

\* 10:00 for 2 hours and 12:00 for 3 hours on the first date, 10:00 for
\* 2 hours on the second
UserBookingBodies ==
  { [spotId |-> 1, date |-> "2024-06-01", startTime |-> TenOClock, duration |-> 2],
    [spotId |-> 1, date |-> "2024-06-01", startTime |-> TwelveOClock, duration |-> 3],
    [spotId |-> 1, date |-> "2024-06-02", startTime |-> TenOClock, duration |-> 2] }

NextAdmin ==
  \/ \E body \in RegisterBodies : Register(body)
  \/ \E sess \in DOMAIN users \cap {2}, body \in UserBookingBodies :
       PostBooking(sess, body, bookingIdCounter)
  \/ \E sess \in DOMAIN users, bookingId \in 1..(MaxBookings + 1) :
       DeleteBooking(sess, bookingId)
  \/ \E sess \in DOMAIN users \cap {1, 2}, bookingId \in 1..(MaxBookings + 1) :
       AdminDeleteBooking(sess, bookingId)
  \/ \E sess \in DOMAIN users \cap {1, 2} : DeleteSpot(sess, 1)
  \/ DeleteSpot(1, 13)
  \/ \E body \in SpotBodies : PutSpot(1, 1, body)

SpecAdmin == Init /\ [][NextAdmin]_vars

(***************************************************************************)
(* MemStorage on its own: createBooking called as IStorage allows, with    *)
(* any status and any user and spot ids, so that the dashboard is computed *)
(* over bookings of every status and over bookings whose user or spot      *)
(* lookup gives undefined.  The clock of createdAt has millisecond         *)
(* resolution: a booking is stored in the millisecond of the one before    *)
(* it (tie) or in a later one.  No user 2 and no spot 13 exist.            *)
(***************************************************************************)
MaxStored == 6

StoredBooking(userId, spotId, status) ==
  [userId |-> userId, spotId |-> spotId, date |-> "2024-06-01",
   startTime |-> TenOClock, endTime |-> TwelveOClock, duration |-> 2,
   totalPrice |-> 600, status |-> status]

StoreInputs ==
  { [data |-> StoredBooking(1, 1, "CONFIRMED"), tie |-> FALSE],
    [data |-> StoredBooking(1, 1, "CONFIRMED"), tie |-> TRUE],
    [data |-> StoredBooking(1, 1, "PENDING"), tie |-> TRUE],
    [data |-> StoredBooking(1, 1, "COMPLETED"), tie |-> FALSE],
    [data |-> StoredBooking(1, 1, "CANCELLED"), tie |-> FALSE],
    [data |-> StoredBooking(2, 1, "CONFIRMED"), tie |-> FALSE],
    [data |-> StoredBooking(1, 13, "CONFIRMED"), tie |-> TRUE] }

\* the createdAt of the booking stored last, 0 before the first
LatestCreatedAt ==
  IF bookings = NoBookings THEN 0
  ELSE bookings[bookingIdCounter - 1].createdAt

StoreBooking(input) ==
  /\ bookingIdCounter <= MaxStored
  /\ bookings' =
       createBooking(input.data,
                     IF input.tie THEN LatestCreatedAt ELSE LatestCreatedAt + 1)
  /\ bookingIdCounter' = bookingIdCounter + 1
  /\ UNCHANGED <<users, userIdCounter, parkingSpots, spotIdCounter, last, pending>>

NextStorage == \E input \in StoreInputs : StoreBooking(input)

SpecStorage == Init /\ [][NextStorage]_vars

(***************************************************************************)
(* POST /api/admin/spots                                                   *)
(***************************************************************************)
SpotTypes == {"STANDARD", "HANDICAPPED", "ELECTRIC", "COMPACT"}

\* insertParkingSpotSchema.safeParse(body): the columns of the table without
\* the id; a number is asked for level and pricePerHour and nothing more,
\* isAvailable has a default and may be left out
InsertSpotSchemaValid(body) ==
  /\ {"spotNumber", "level", "type", "pricePerHour"} \subseteq DOMAIN body
  /\ body.type \in SpotTypes
  /\ "isAvailable" \in DOMAIN body => body.isAvailable \in BOOLEAN

\* MemStorage.createParkingSpot: the spots map after the insert
createParkingSpot(spotData) ==
  LET id == spotIdCounter
      spot ==
        [id |-> id,
         spotNumber |-> spotData.spotNumber,
         level |-> spotData.level,
         type |-> spotData.type,
         isAvailable |->
           IF "isAvailable" \in DOMAIN spotData THEN spotData.isAvailable ELSE TRUE,
         pricePerHour |-> spotData.pricePerHour]
  IN [k \in DOMAIN parkingSpots \cup {id} |-> IF k = id THEN spot ELSE parkingSpots[k]]

\* faulty variant: the spot number is not looked up
PostSpotRejectionNoLookup(body) ==
  IF ~InsertSpotSchemaValid(body) THEN "Invalid spot data" ELSE ""

PostSpotRejection(body) ==
  IF ~InsertSpotSchemaValid(body) THEN "Invalid spot data"
  ELSE IF spotNumberTaken(body.spotNumber)
    THEN "A spot with this number already exists"
  ELSE ""

PostSpot(sess, body) ==
  /\ UNCHANGED pending
  /\ LET auth == authMiddleware(sess)
     IN IF auth # 0
       THEN /\ last' = Response("postSpot", sess, body, auth, "", 0)
            /\ UNCHANGED store
     ELSE IF adminMiddleware(sess) # 0
       THEN /\ last' = Response("postSpot", sess, body,
                                adminMiddleware(sess), "Admin access required", 0)
            /\ UNCHANGED store
     ELSE LET rejection == PostSpotRejection(body)
          IN IF rejection # ""
               THEN /\ last' = Response("postSpot", sess, body,
                                        PutRejectionStatus(rejection), rejection, 0)
                    /\ UNCHANGED store
             ELSE /\ parkingSpots' = createParkingSpot(body)
                  /\ spotIdCounter' = spotIdCounter + 1
                  /\ last' = Response("postSpot", sess, body, 201, "", spotIdCounter)
                  /\ UNCHANGED <<users, userIdCounter, bookings, bookingIdCounter>>

(***************************************************************************)
(* The spot routes of the administrator (user 1) with the booking routes,  *)
(* one request at a time.  Spots are created with the numbers C1 and A1,   *)
(* spot A1 (id 1) is edited and deleted; a created spot gets id 13 or 14.  *)
(* Prices are in cents.  Requests carry what a client can send: levels     *)
(* below 1, negative prices and durations that are not positive included.  *)
(***************************************************************************)
NewSpot(spotNumber, level, pricePerHour) ==
  [spotNumber |-> spotNumber, level |-> level, type |-> "STANDARD",
   pricePerHour |-> pricePerHour]

PostSpotBodies ==
  { NewSpot("C1", 1, 300), NewSpot("A1", 1, 300),
    NewSpot("C1", 0, 300), NewSpot("C1", 1, -100),
    [spotNumber |-> "C1", level |-> 1, type |-> "STANDARD"] }

EditedSpot(spotNumber, level, pricePerHour, isAvailable) ==
  [spotNumber |-> spotNumber, level |-> level, type |-> "STANDARD",
   pricePerHour |-> pricePerHour, isAvailable |-> isAvailable]

PutSpotBodies ==
  { EditedSpot("A1", 1, 450, TRUE), EditedSpot("A1", 1, 300, FALSE),
    EditedSpot("A2", 1, 300, TRUE), EditedSpot("C1", 1, 300, TRUE),
    EditedSpot("A1", 0, 300, TRUE), EditedSpot("A1", 1, -100, TRUE) }

SpotBookingBodies ==
  [spotId : {1}, date : {"2024-06-01"}, startTime : {TenOClock},
   duration : {2, 0, -1}]
    \cup [spotId : {13}, date : {"2024-06-01"}, startTime : {TenOClock},
          duration : {2}]

NextSpots ==
  \/ \E body \in PostSpotBodies : PostSpot(1, body)
  \/ \E body \in PutSpotBodies : PutSpot(1, 1, body)
  \/ DeleteSpot(1, 1)
  \/ \E body \in SpotBookingBodies : PostBooking(1, body, bookingIdCounter)
  \/ \E bookingId \in 1..MaxBookings : DeleteBooking(1, bookingId)

SpecSpots == Init /\ [][NextSpots]_vars

(***************************************************************************)
(* Accounts: POST /api/auth/login, PUT /api/admin/users/:id and            *)
(* PATCH /api/admin/users/:id/status.  The session a login opens is the    *)
(* sess of its response, 0 when none is opened.                            *)
(***************************************************************************)
\* loginSchema.safeParse(body): an address and a password of six characters
LoginSchemaValid(body) == {"email", "password"} \subseteq DOMAIN body

\* Array.prototype.find over the values of the map: the first in id order
FirstUser(found) ==
  CHOOSE user \in found : \A other \in found : user.id <= other.id

\* faulty variant: the active flag is not looked at
LoginRejectionNoActiveCheck(body) ==
  IF ~LoginSchemaValid(body) THEN "Invalid login data"
  ELSE IF getUserByEmail(body.email) = {} THEN "Invalid email or password"
  ELSE IF ~comparePassword(body.password,
                           FirstUser(getUserByEmail(body.email)).password)
    THEN "Invalid email or password"
  ELSE ""

\* the checks of the login route in their order: the message of the first
\* that fails, "" when the session is opened
LoginRejection(body) ==
  IF ~LoginSchemaValid(body) THEN "Invalid login data"
  ELSE IF getUserByEmail(body.email) = {} THEN "Invalid email or password"
  ELSE IF ~FirstUser(getUserByEmail(body.email)).isActive
    THEN "This account has been deactivated"
  ELSE IF ~comparePassword(body.password,
                           FirstUser(getUserByEmail(body.email)).password)
    THEN "Invalid email or password"
  ELSE ""

LoginRejectionStatus(message) ==
  IF message = "Invalid login data" THEN 400 ELSE 401

Login(body) ==
  /\ UNCHANGED <<store, pending>>
  /\ LET rejection == LoginRejection(body)
     IN IF rejection # ""
          THEN last' = Response("login", 0, body,
                                LoginRejectionStatus(rejection), rejection, 0)
        ELSE last' = Response("login", FirstUser(getUserByEmail(body.email)).id,
                              body, 200, "", 0)

\* MemStorage.updateUser: the users map after the update.  The given fields
\* replace the stored ones, the id stays, a given password is hashed.
updateUser(id, userData) ==
  LET user == users[id]
      updatedUser ==
        [field \in DOMAIN user |->
           IF field = "id" THEN user.id
           ELSE IF field = "password"
             THEN IF "password" \in DOMAIN userData
                    THEN hashPassword(userData.password)
                  ELSE user.password
           ELSE IF field \in DOMAIN userData THEN userData[field]
           ELSE user[field]]
  IN [users EXCEPT ![id] = updatedUser]

\* z.object({name, email, isActive, isAdmin?, password?}).safeParse(body)
UserBodyValid(body) == {"name", "email", "isActive"} \subseteq DOMAIN body

\* the checks of PUT /api/admin/users/:id after the middleware
PutUserRejection(userId, body) ==
  IF userId \notin DOMAIN users THEN "User not found"
  ELSE IF ~UserBodyValid(body) THEN "Invalid user data"
  ELSE IF body.email # users[userId].email /\ getUserByEmail(body.email) # {}
    THEN "A user with this email already exists"
  ELSE ""

UserRejectionStatus(message) ==
  IF message = "User not found" THEN 404
  ELSE IF message = "A user with this email already exists" THEN 409
  ELSE 400

PutUser(sess, userId, body) ==
  /\ UNCHANGED pending
  /\ LET auth == authMiddleware(sess)
         request == [id |-> userId, user |-> body]
     IN IF auth # 0
       THEN /\ last' = Response("putUser", sess, request, auth, "", 0)
            /\ UNCHANGED store
     ELSE IF adminMiddleware(sess) # 0
       THEN /\ last' = Response("putUser", sess, request, adminMiddleware(sess), "", 0)
            /\ UNCHANGED store
     ELSE LET rejection == PutUserRejection(userId, body)
          IN IF rejection # ""
               THEN /\ last' = Response("putUser", sess, request,
                                        UserRejectionStatus(rejection), rejection, 0)
                    /\ UNCHANGED store
             ELSE /\ users' = updateUser(userId, body)
                  /\ last' = Response("putUser", sess, request, 200, "", 0)
                  /\ UNCHANGED <<userIdCounter, parkingSpots, spotIdCounter,
                                 bookings, bookingIdCounter>>

\* the checks of PATCH /api/admin/users/:id/status after the middleware;
\* a body whose isActive is not a boolean is one without the field
PatchUserStatusRejection(sess, userId, body) ==
  IF "isActive" \notin DOMAIN body
    THEN "isActive must be a boolean"
  ELSE IF userId \notin DOMAIN users THEN "User not found"
  ELSE IF sess = userId /\ ~body.isActive
    THEN "You cannot deactivate your own account"
  ELSE ""

PatchUserStatus(sess, userId, body) ==
  /\ UNCHANGED pending
  /\ LET auth == authMiddleware(sess)
         request == [id |-> userId, user |-> body]
     IN IF auth # 0
       THEN /\ last' = Response("patchUserStatus", sess, request, auth, "", 0)
            /\ UNCHANGED store
     ELSE IF adminMiddleware(sess) # 0
       THEN /\ last' = Response("patchUserStatus", sess, request,
                                adminMiddleware(sess), "", 0)
            /\ UNCHANGED store
     ELSE LET rejection == PatchUserStatusRejection(sess, userId, body)
          IN IF rejection # ""
               THEN /\ last' = Response("patchUserStatus", sess, request,
                                        UserRejectionStatus(rejection), rejection, 0)
                    /\ UNCHANGED store
             ELSE /\ users' = updateUser(userId, [isActive |-> body.isActive])
                  /\ last' = Response("patchUserStatus", sess, request, 200, "", 0)
                  /\ UNCHANGED <<userIdCounter, parkingSpots, spotIdCounter,
                                 bookings, bookingIdCounter>>

(***************************************************************************)
(* Registrations, logins and the administrator's user updates, one at a    *)
(* time.  A freed address can be registered again, so the number of        *)
(* accounts is capped.                                                     *)
(***************************************************************************)
MaxUsers == 3

AccountRegisterBodies ==
  [name : {"Ann"}, email : {AnnEmail, AnnEmailCapital}, password : {"secret1"}]
    \cup [name : {"Ann"}, email : {AnnEmail}]

LoginBodies ==
  [email : {AnnEmail, AnnEmailCapital}, password : {"secret1", "wrong00"}]
    \cup [email : {BobEmail}, password : {"secret1"}]
    \cup [email : {AnnEmail}]

PutUserBodies ==
  [name : {"Ann"}, email : {AnnEmail, AnnEmailCapital, BobEmail, AdminEmail},
   isActive : BOOLEAN]
    \cup [name : {"Ann"}, email : {AnnEmail}]

\* the last body carries no boolean isActive
PatchUserStatusBodies == [isActive : BOOLEAN] \cup {[active |-> FALSE]}

AccountBookingBodies ==
  [spotId : {1}, date : {"2024-06-01"}, startTime : {TenOClock}, duration : {2}]

NextUsers ==
  \/ /\ userIdCounter <= MaxUsers
     /\ \E body \in AccountRegisterBodies : Register(body)
  \/ \E body \in LoginBodies : Login(body)
  \/ \E userId \in 2..(MaxUsers + 1), body \in PutUserBodies :
       PutUser(1, userId, body)
  \/ \E userId \in 1..MaxUsers, body \in PatchUserStatusBodies :
       PatchUserStatus(1, userId, body)
  \/ \E sess \in DOMAIN users \cap {2} :
       PatchUserStatus(sess, 2, [isActive |-> TRUE])
  \/ \E sess \in DOMAIN users \cap {2}, body \in AccountBookingBodies :
       PostBooking(sess, body, bookingIdCounter)

SpecUsers == Init /\ [][NextUsers]_vars

(***************************************************************************)
(* DELETE /api/bookings/:id with its awaits as points where another        *)
(* request may run.  An async storage method runs up to its first await    *)
(* when it is called: getBooking reads the map at the call, updateBooking  *)
(* reads and writes it at the call.  The slot of a cancellation keeps the  *)
(* booking id and the record the route was given in its body.              *)
(***************************************************************************)
\* the request arrives: middleware, then the call of storage.getBooking
BeginDeleteBooking(r, sess, bookingId) ==
  /\ pending[r].pc = "idle"
  /\ authMiddleware(sess) = 0
  /\ pending' =
       [pending EXCEPT ![r] =
          [Idle EXCEPT
             !.pc = "awaitGetBooking", !.sess = sess,
             !.body =
               [id |-> bookingId,
                found |-> bookingId \in DOMAIN bookings,
                booking |->
                  IF bookingId \in DOMAIN bookings THEN bookings[bookingId]
                  ELSE <<>>]]]
  /\ UNCHANGED <<store, last>>

\* resumed with the booking: 404, 403, 400, or the call of
\* storage.deleteBooking, which calls getBooking again; spotFound keeps
\* whether that second read found the booking
ResumeWithGetBooking(r) ==
  /\ pending[r].pc = "awaitGetBooking"
  /\ LET request == pending[r].body
         booking == request.booking
     IN pending' =
          [pending EXCEPT ![r] =
             IF ~request.found
               THEN [@ EXCEPT !.pc = "done", !.status = 404]
             ELSE IF booking.userId # pending[r].sess
                     /\ ~users[pending[r].sess].isAdmin
               THEN [@ EXCEPT !.pc = "done", !.status = 403]
             ELSE IF booking.status \in {"COMPLETED", "CANCELLED"}
               THEN [@ EXCEPT !.pc = "done", !.status = 400]
             ELSE [@ EXCEPT !.pc = "awaitDeleteGet",
                            !.spotFound = request.id \in DOMAIN bookings]]
  /\ UNCHANGED <<store, last>>

\* deleteBooking resumed with its own read: false (500), or the call of
\* updateBooking(id, {status: "CANCELLED"})
ResumeWithDeleteGet(r) ==
  /\ pending[r].pc = "awaitDeleteGet"
  /\ IF ~pending[r].spotFound
       THEN /\ pending' = [pending EXCEPT ![r] = [@ EXCEPT !.pc = "done", !.status = 500]]
            /\ UNCHANGED <<store, last>>
     ELSE /\ bookings' = updateBooking(pending[r].body.id, [status |-> "CANCELLED"])
          /\ pending' = [pending EXCEPT ![r] = [@ EXCEPT !.pc = "awaitUpdate"]]
          /\ UNCHANGED <<users, userIdCounter, parkingSpots, spotIdCounter,
                         bookingIdCounter, last>>

\* resumed with true: 200
ResumeWithCancelled(r) ==
  /\ pending[r].pc = "awaitUpdate"
  /\ pending' = [pending EXCEPT ![r] = [@ EXCEPT !.pc = "done", !.status = 200]]
  /\ UNCHANGED <<store, last>>

\* the response has been sent: the slot takes the next request
Release(r) ==
  /\ pending[r].pc = "done"
  /\ pending' = [pending EXCEPT ![r] = Idle]
  /\ UNCHANGED <<store, last>>

CancelRaceBodies ==
  [spotId : {1}, date : {"2024-06-01"}, startTime : {TenOClock}, duration : {2}]

NextCancelRace ==
  \/ \E r \in 1..MaxInFlight, body \in CancelRaceBodies :
       BeginPostBooking(r, 1, body)
  \/ \E r \in 1..MaxInFlight : ResumeWithSpot(r)
  \/ \E r \in 1..MaxInFlight : ResumeWithAvailable(r)
  \/ \E r \in 1..MaxInFlight : ResumeWithBooking(r)
  \/ \E r \in 1..MaxInFlight, bookingId \in 1..MaxBookings :
       BeginDeleteBooking(r, 1, bookingId)
  \/ \E r \in 1..MaxInFlight : ResumeWithGetBooking(r)
  \/ \E r \in 1..MaxInFlight : ResumeWithDeleteGet(r)
  \/ \E r \in 1..MaxInFlight : ResumeWithCancelled(r)
  \/ \E r \in 1..MaxInFlight : Release(r)

SpecCancelRace == Init /\ [][NextCancelRace]_vars

(***************************************************************************)
(* Every operation that creates or removes a booking, a spot or a user,    *)
(* or edits one, served one at a time: the administrator works on spot 1   *)
(* and on the spot and the user that are created, both accounts book.      *)
(***************************************************************************)
\* the greatest id a created spot gets: a deleted spot's number is free
\* again, so the creations are capped
MaxSpotId == 13

IntegrityBookingBodies ==
  [spotId : {1, 13}, date : {"2024-06-01"}, startTime : {TenOClock},
   duration : {2}]

IntegrityUserBodies ==
  [name : {"Ann"}, email : {AnnEmail, BobEmail}, isActive : BOOLEAN]

NextIntegrity ==
  \/ /\ userIdCounter < MaxUsers
     /\ Register([name |-> "Ann", email |-> AnnEmail, password |-> "secret1"])
  \/ \E body \in IntegrityUserBodies : PutUser(1, 2, body)
  \/ \E sess \in DOMAIN users \cap {1, 2}, body \in IntegrityBookingBodies :
       PostBooking(sess, body, bookingIdCounter)
  \/ \E sess \in DOMAIN users \cap {1, 2}, bookingId \in 1..MaxBookings :
       DeleteBooking(sess, bookingId)
  \/ /\ spotIdCounter <= MaxSpotId
     /\ PostSpot(1, NewSpot("C1", 1, 300))
  \/ \E spotId \in {1, 13}, spotNumber \in {"A1", "C1"} :
       PutSpot(1, spotId, EditedSpot(spotNumber, 2, 450, TRUE))
  \/ \E spotId \in {1, 13} : DeleteSpot(1, spotId)

SpecIntegrity == Init /\ [][NextIntegrity]_vars

(***************************************************************************)
(* Reference notions the properties are stated with.  They read the clock  *)
(* digits directly and never go through the code's Date arithmetic.        *)
(***************************************************************************)
\* minutes after midnight of an "HH:MM" clock time
ClockMinutes(time) ==
  (10 * DigitValue(time[1]) + DigitValue(time[2])) * 60
    + 10 * DigitValue(time[4]) + DigitValue(time[5])

\* [a, b) and [c, d) overlap
Overlap(a, b, c, d) == a < d /\ b > c

\* a booking occupies [start, start + duration hours), in minutes after the
\* midnight that begins its date
BookingStart(b) == ClockMinutes(b.startTime)
BookingEnd(b) == ClockMinutes(b.startTime) + 60 * b.duration

\* the window [startTime, startTime + duration hours) of a request
WindowStart(startTime) == ClockMinutes(startTime)
WindowEnd(startTime, duration) == ClockMinutes(startTime) + 60 * duration

Active(b) == b.status \in {"PENDING", "CONFIRMED"}

BookingOverlapsWindow(b, spotId, date, startTime, duration) ==
  /\ b.spotId = spotId
  /\ b.date = date
  /\ b.status # "CANCELLED"
  /\ Overlap(BookingStart(b), BookingEnd(b),
             WindowStart(startTime), WindowEnd(startTime, duration))

AvailableIds(date, startTime, duration) ==
  { spot.id : spot \in getAvailableParkingSpots(date, startTime, duration) }

\* the windows availability is asked for in the properties
QueryStartTimes == StartTimes \cup { b.endTime : b \in Values(bookings) }
QueryDurations == Durations \cup {1}

PostBookingAccepted ==
  last.op = "postBooking" /\ last.status = 201

(***************************************************************************)
(* C1: no two distinct PENDING or CONFIRMED bookings of one spot on one    *)
(* date have overlapping [start, start + duration hours) intervals.        *)
(***************************************************************************)
C1_NoOverlappingActiveBookings ==
  \A i, j \in DOMAIN bookings :
    (/\ i # j
     /\ bookings[i].spotId = bookings[j].spotId
     /\ bookings[i].date = bookings[j].date
     /\ Active(bookings[i])
     /\ Active(bookings[j]))
    => ~Overlap(BookingStart(bookings[i]), BookingEnd(bookings[i]),
                BookingStart(bookings[j]), BookingEnd(bookings[j]))

(***************************************************************************)
(* C2: with the availability check and the insert as separate steps that   *)
(* another request can run between, two requests for the same spot, date   *)
(* and overlapping windows can both see the spot available and both        *)
(* succeed, leaving two overlapping CONFIRMED bookings (C2_Witness); and   *)
(* overlapping bookings arise in no other way: the request that inserted   *)
(* second had read availability before the first insert.                   *)
(***************************************************************************)
OverlappingConfirmed(i, j) ==
  /\ i # j
  /\ bookings[i].spotId = bookings[j].spotId
  /\ bookings[i].date = bookings[j].date
  /\ bookings[i].status = "CONFIRMED"
  /\ bookings[j].status = "CONFIRMED"
  /\ Overlap(BookingStart(bookings[i]), BookingEnd(bookings[i]),
             BookingStart(bookings[j]), BookingEnd(bookings[j]))

C2_OverlapOnlyByInterleaving ==
  \A r1, r2 \in 1..MaxInFlight :
    (/\ pending[r1].created # 0
     /\ pending[r2].created # 0
     /\ pending[r1].created < pending[r2].created
     /\ OverlappingConfirmed(pending[r1].created, pending[r2].created))
    => /\ pending[r1].isAvailable
       /\ pending[r2].isAvailable
       /\ pending[r2].checkedAt <= pending[r1].created

\* both requests saw the spot available, both were answered 201, and their
\* two CONFIRMED bookings overlap
C2_Witness ==
  \E r1, r2 \in 1..MaxInFlight :
    /\ pending[r1].pc = "done" /\ pending[r1].status = 201
    /\ pending[r2].pc = "done" /\ pending[r2].status = 201
    /\ pending[r1].isAvailable /\ pending[r2].isAvailable
    /\ pending[r1].created # pending[r2].created
    /\ OverlappingConfirmed(pending[r1].created, pending[r2].created)

(***************************************************************************)
(* C3: whatever the date, start time and duration asked for, no spot       *)
(* returned by getAvailableParkingSpots has its isAvailable flag false.    *)
(***************************************************************************)
C3_DisabledSpotNeverReturned ==
  \A date \in Dates, startTime \in QueryStartTimes, duration \in QueryDurations :
    \A id \in AvailableIds(date, startTime, duration) :
      id \in DOMAIN parkingSpots /\ parkingSpots[id].isAvailable

\* a spot that is switched off holds a confirmed booking, and a query for a
\* window that booking does not touch leaves the spot out all the same
C3_Witness ==
  \E b \in Values(bookings) :
    /\ b.status = "CONFIRMED"
    /\ ~parkingSpots[b.spotId].isAvailable
    /\ \E date \in Dates :
         /\ date # b.date
         /\ \A o \in Values(bookings) : o.date # date
         /\ b.spotId \notin AvailableIds(date, TenOClock, 2)

(***************************************************************************)
(* C4: getAvailableParkingSpots returns exactly the spots whose flag is    *)
(* true and that have no non-cancelled booking on the date whose interval  *)
(* overlaps the requested window.                                          *)
(***************************************************************************)
ReferenceAvailableIds(date, startTime, duration) ==
  { id \in DOMAIN parkingSpots :
      /\ parkingSpots[id].isAvailable
      /\ ~\E b \in Values(bookings) :
            BookingOverlapsWindow(b, id, date, startTime, duration) }

C4_AvailabilityMatchesReference ==
  \A date \in Dates, startTime \in QueryStartTimes, duration \in QueryDurations :
    AvailableIds(date, startTime, duration)
      = ReferenceAvailableIds(date, startTime, duration)

(***************************************************************************)
(* C5: while a booking made for spot S, date D, start T and duration H is  *)
(* not cancelled, getAvailableParkingSpots(D, T, H) does not contain S.    *)
(***************************************************************************)
C5_BookedWindowNotAvailable ==
  \A b \in Values(bookings) :
    b.status # "CANCELLED"
      => b.spotId \notin AvailableIds(b.date, b.startTime, b.duration)

(***************************************************************************)
(* C6: for a booking made for spot S on date D, a query on D that starts   *)
(* at the booking's end (start + duration hours, a time of day D) contains *)
(* S, provided S is switched on and no other non-cancelled booking         *)
(* overlaps the queried window.                                            *)
(***************************************************************************)
C6_FreeRightAfterBooking ==
  \A b \in Values(bookings) : \A duration \in QueryDurations :
    (/\ WindowStart(b.endTime) = BookingEnd(b)
     /\ b.spotId \in DOMAIN parkingSpots
     /\ parkingSpots[b.spotId].isAvailable
     /\ \A o \in Values(bookings) :
          o.id # b.id
            => ~BookingOverlapsWindow(o, b.spotId, b.date, b.endTime, duration))
    => b.spotId \in AvailableIds(b.date, b.endTime, duration)

\* a confirmed booking that ends before midnight, a second confirmed booking
\* of the same spot and date that does not reach the queried hour, and the
\* spot is returned for the hour after the first booking's end
C6_Witness ==
  \E b, o \in Values(bookings) :
    /\ b.id # o.id
    /\ b.status = "CONFIRMED" /\ o.status = "CONFIRMED"
    /\ b.spotId = o.spotId /\ b.date = o.date
    /\ WindowStart(b.endTime) = BookingEnd(b)
    /\ ~BookingOverlapsWindow(o, b.spotId, b.date, b.endTime, 1)
    /\ parkingSpots[b.spotId].isAvailable
    /\ b.spotId \in AvailableIds(b.date, b.endTime, 1)

(***************************************************************************)
(* Steps of POST /api/bookings, read off the response they leave in last.  *)
(* Unprimed variables are the store the request met.                       *)
(***************************************************************************)
\* the step answers a well-formed request of a signed-in, active user
PostBookingStep ==
  /\ last'.op = "postBooking"
  /\ authMiddleware(last'.sess) = 0
  /\ BookingSchemaValid(last'.body)

ConflictMessage == "This spot is not available for the selected time slot"

RejectedWith(status, message) ==
  /\ last'.status = status
  /\ last'.message = message
  /\ last'.created = 0
  /\ UNCHANGED store

(***************************************************************************)
(* C7: a successful createBooking adds exactly one booking: CONFIRMED, for *)
(* the requested spot, date, start and duration, its end time the clock    *)
(* time of start + duration hours, its totalPrice the spot's pricePerHour  *)
(* at that moment times the duration; nothing else changes.                *)
(***************************************************************************)
C7_Step ==
  (last'.op = "postBooking" /\ last'.status = 201)
    => LET body == last'.body
           id == last'.created
       IN /\ id \notin DOMAIN bookings
          /\ DOMAIN bookings' = DOMAIN bookings \cup {id}
          /\ \A k \in DOMAIN bookings : bookings'[k] = bookings[k]
          /\ bookings'[id].id = id
          /\ bookings'[id].userId = last'.sess
          /\ bookings'[id].status = "CONFIRMED"
          /\ bookings'[id].spotId = body.spotId
          /\ bookings'[id].date = body.date
          /\ bookings'[id].startTime = body.startTime
          /\ bookings'[id].duration = body.duration
          /\ Len(bookings'[id].endTime) = 5
          /\ bookings'[id].endTime[3] = ":"
          /\ ClockMinutes(bookings'[id].endTime)
               = (ClockMinutes(body.startTime) + 60 * body.duration) % 1440
          /\ bookings'[id].totalPrice
               = parkingSpots[body.spotId].pricePerHour * body.duration
          /\ UNCHANGED <<users, userIdCounter, parkingSpots, spotIdCounter>>

C7_CreateAddsOneConfirmedBooking == [][C7_Step]_vars

\* the scenario of the specification: price 3.0, 10:00 for 2 hours gives a
\* CONFIRMED booking ending at 12:00 for 6.0
C7_Witness ==
  /\ PostBookingAccepted
  /\ LET b == bookings[last.created]
     IN /\ b.startTime = TenOClock
        /\ b.duration = 2
        /\ b.endTime = <<"1", "2", ":", "0", "0">>
        /\ b.totalPrice = 600
        /\ b.status = "CONFIRMED"
        /\ parkingSpots[b.spotId].pricePerHour = 300

(***************************************************************************)
(* C8: a createBooking for an existing spot whose window overlaps a        *)
(* non-cancelled booking of that spot on that date is rejected with the    *)
(* conflict answer and changes nothing.                                    *)
(***************************************************************************)
C8_Step ==
  (/\ PostBookingStep
   /\ last'.body.spotId \in DOMAIN parkingSpots
   /\ \E b \in Values(bookings) :
        BookingOverlapsWindow(b, last'.body.spotId, last'.body.date,
                              last'.body.startTime, last'.body.duration))
    => RejectedWith(400, ConflictMessage)

C8_OverlappingRequestRejected == [][C8_Step]_vars

(***************************************************************************)
(* C9: a createBooking whose start is the end (start + duration hours) of  *)
(* a non-cancelled booking of the same spot and date succeeds, provided    *)
(* the spot is switched on and no other non-cancelled booking overlaps the *)
(* requested window.                                                       *)
(***************************************************************************)
AbutsBooking(b, body) ==
  /\ b.spotId = body.spotId
  /\ b.date = body.date
  /\ b.status # "CANCELLED"
  /\ BookingEnd(b) = WindowStart(body.startTime)

C9_Step ==
  (/\ PostBookingStep
   /\ last'.body.spotId \in DOMAIN parkingSpots
   /\ parkingSpots[last'.body.spotId].isAvailable
   /\ \E b \in Values(bookings) :
        /\ AbutsBooking(b, last'.body)
        /\ \A o \in Values(bookings) :
             o.id # b.id
               => ~BookingOverlapsWindow(o, last'.body.spotId, last'.body.date,
                                         last'.body.startTime, last'.body.duration))
    => /\ last'.status = 201
       /\ last'.created \in DOMAIN bookings'
       /\ last'.created \notin DOMAIN bookings

C9_AbuttingRequestSucceeds == [][C9_Step]_vars

\* the request just accepted starts where a confirmed booking ends
C9_Witness ==
  /\ PostBookingAccepted
  /\ \E b \in Values(bookings) :
       /\ b.id # last.created
       /\ b.status = "CONFIRMED"
       /\ AbutsBooking(b, last.body)
       /\ bookings[last.created].startTime = b.endTime

(***************************************************************************)
(* C10: createBooking checks that the spot exists before it checks that    *)
(* the spot is available: a spot id that does not exist is answered with   *)
(* "not found", a spot that exists but is switched off with the conflict   *)
(* answer, and neither request stores a booking.                           *)
(***************************************************************************)
C10_Step ==
  PostBookingStep
    => /\ last'.body.spotId \notin DOMAIN parkingSpots
            => RejectedWith(404, "Parking spot not found")
       /\ (/\ last'.body.spotId \in DOMAIN parkingSpots
           /\ ~parkingSpots[last'.body.spotId].isAvailable)
            => RejectedWith(400, ConflictMessage)

C10_ExistenceCheckedBeforeAvailability == [][C10_Step]_vars

\* the last request named a spot that does not exist and was answered 404,
\* while bookings and switched-off spots exist
C10_Witness ==
  /\ last.op = "postBooking"
  /\ authMiddleware(last.sess) = 0
  /\ BookingSchemaValid(last.body)
  /\ last.body.spotId \notin DOMAIN parkingSpots
  /\ last.status = 404
  /\ last.created = 0
  /\ bookings # NoBookings

(***************************************************************************)
(* Steps of the cancel routes, read off the response they leave in last.   *)
(* Unprimed variables are the store the request met.                       *)
(***************************************************************************)
CancelOps == {"deleteBooking", "adminDeleteBooking"}

\* the step answers a cancel request of a signed-in, active user for a
\* booking that exists
UserCancelStep ==
  /\ last'.op = "deleteBooking"
  /\ authMiddleware(last'.sess) = 0
  /\ last'.body.id \in DOMAIN bookings

AdminCancelStep ==
  /\ last'.op = "adminDeleteBooking"
  /\ authMiddleware(last'.sess) = 0
  /\ users[last'.sess].isAdmin
  /\ last'.body.id \in DOMAIN bookings

OwnerOrAdmin(sess, booking) == booking.userId = sess \/ users[sess].isAdmin

CancelSucceeded == last.op \in CancelOps /\ last.status = 200

(***************************************************************************)
(* C11: a cancel request of a user who neither owns the booking nor is an  *)
(* administrator is answered 403 "Not authorized to cancel this booking",  *)
(* whatever the booking's status, and changes nothing; a request of the    *)
(* owner or of an administrator is not answered 403: it is answered 200    *)
(* for a CONFIRMED booking and 400 for a cancelled one.                    *)
(***************************************************************************)
C11_Step ==
  UserCancelStep
    => LET booking == bookings[last'.body.id]
       IN IF OwnerOrAdmin(last'.sess, booking)
            THEN last'.status = (IF booking.status = "CONFIRMED" THEN 200 ELSE 400)
          ELSE /\ last'.status = 403
               /\ last'.message = "Not authorized to cancel this booking"
               /\ UNCHANGED store

C11_ForeignCancelForbidden == [][C11_Step]_vars

\* a user who is neither the owner nor an administrator asked to cancel a
\* booking that is already cancelled, and was answered 403
C11_Witness ==
  /\ last.op = "deleteBooking"
  /\ last.status = 403
  /\ last.sess \in DOMAIN users
  /\ ~users[last.sess].isAdmin
  /\ last.body.id \in DOMAIN bookings
  /\ bookings[last.body.id].userId # last.sess
  /\ bookings[last.body.id].status = "CANCELLED"

(***************************************************************************)
(* C12: a cancel request for a booking that is already CANCELLED or        *)
(* COMPLETED, made by its owner or an administrator on the user route or   *)
(* by an administrator on the admin route, is answered 400 "Booking cannot *)
(* be cancelled" and changes nothing; the same request for a CONFIRMED     *)
(* booking is answered 200 and leaves the booking CANCELLED, so that a     *)
(* second cancel of the same booking is answered 400.                      *)
(***************************************************************************)
C12_Step ==
  ((UserCancelStep /\ OwnerOrAdmin(last'.sess, bookings[last'.body.id]))
     \/ AdminCancelStep)
    => LET id == last'.body.id
       IN IF bookings[id].status \in {"CANCELLED", "COMPLETED"}
            THEN /\ last'.status = 400
                 /\ last'.message = "Booking cannot be cancelled"
                 /\ UNCHANGED store
          ELSE /\ last'.status = 200
               /\ bookings'[id].status = "CANCELLED"

C12_CancelTwiceInvalidState == [][C12_Step]_vars

\* the owner asked to cancel a booking of theirs that is cancelled already,
\* and was answered 400
C12_Witness ==
  /\ last.op = "deleteBooking"
  /\ last.status = 400
  /\ last.body.id \in DOMAIN bookings
  /\ bookings[last.body.id].userId = last.sess
  /\ ~users[last.sess].isAdmin
  /\ bookings[last.body.id].status = "CANCELLED"

(***************************************************************************)
(* C13: a successful cancel sets the status of the booking it names to     *)
(* CANCELLED and changes nothing else: the other fields of that booking,   *)
(* every other booking, the users and the spots stay as they were; and no  *)
(* step of any route removes a booking, so the set of booking ids never    *)
(* shrinks.                                                                *)
(***************************************************************************)
C13_Step ==
  /\ DOMAIN bookings \subseteq DOMAIN bookings'
  /\ (last'.op \in CancelOps /\ last'.status = 200)
       => LET id == last'.body.id
          IN /\ id \in DOMAIN bookings
             /\ bookings[id].status # "CANCELLED"
             /\ bookings' = [bookings EXCEPT ![id].status = "CANCELLED"]
             /\ UNCHANGED <<users, userIdCounter, parkingSpots, spotIdCounter, bookingIdCounter>>

C13_CancelChangesOnlyStatus == [][C13_Step]_vars

\* a booking was just cancelled while another booking stays confirmed
C13_Witness ==
  /\ CancelSucceeded
  /\ bookings[last.body.id].status = "CANCELLED"
  /\ bookings[last.body.id].totalPrice = 900
  /\ \E o \in Values(bookings) : o.id # last.body.id /\ o.status = "CONFIRMED"

(***************************************************************************)
(* C14: every booking is created CONFIRMED; the status of a stored booking *)
(* changes only from CONFIRMED to CANCELLED; a CANCELLED booking keeps its *)
(* status; no booking is ever PENDING or COMPLETED.                        *)
(***************************************************************************)
C14_Step ==
  /\ \A id \in DOMAIN bookings' \ DOMAIN bookings :
       bookings'[id].status = "CONFIRMED"
  /\ \A id \in DOMAIN bookings \cap DOMAIN bookings' :
       \/ bookings'[id].status = bookings[id].status
       \/ bookings[id].status = "CONFIRMED" /\ bookings'[id].status = "CANCELLED"
  /\ \A id \in DOMAIN bookings' :
       bookings'[id].status \in {"CONFIRMED", "CANCELLED"}

C14_StatusLifecycle == [][C14_Step]_vars

\* a booking was created while an earlier booking stays cancelled
C14_Witness ==
  /\ last.op = "postBooking"
  /\ last.status = 201
  /\ bookings[last.created].status = "CONFIRMED"
  /\ \E o \in Values(bookings) : o.id < last.created /\ o.status = "CANCELLED"

(***************************************************************************)
(* Reference counts for the dashboard, taken over the ids of the maps.     *)
(***************************************************************************)
RECURSIVE TotalPriceOf(_)
TotalPriceOf(ids) ==
  IF ids = {} THEN 0
  ELSE LET id == CHOOSE i \in ids : TRUE
       IN bookings[id].totalPrice + TotalPriceOf(ids \ {id})

NotCancelledIds == { id \in DOMAIN bookings : bookings[id].status # "CANCELLED" }

\* activeBookings and occupiedSpots do not depend on the day of the request
ActiveBookingsStat == getDashboardStats("2024-06-01").activeBookings

OccupiedSpotsStat == getDashboardStats("2024-06-01").occupiedSpots

BookingRouteOps == {"postBooking", "deleteBooking", "adminDeleteBooking"}

(***************************************************************************)
(* C15: for every day the request may fall on, revenueToday is the sum of  *)
(* totalPrice over the bookings of that date whose status is not           *)
(* CANCELLED.                                                              *)
(***************************************************************************)
C15_RevenueToday ==
  \A today \in Dates :
    getDashboardStats(today).revenueToday
      = TotalPriceOf({ id \in NotCancelledIds : bookings[id].date = today })

\* the scenario of the specification: today one CONFIRMED booking priced 6.0
\* and one CANCELLED booking priced 9.0, revenue 6.0
C15_Witness ==
  /\ \E i, j \in DOMAIN bookings :
       /\ bookings[i].date = "2024-06-01" /\ bookings[j].date = "2024-06-01"
       /\ bookings[i].status = "CONFIRMED" /\ bookings[i].totalPrice = 600
       /\ bookings[j].status = "CANCELLED" /\ bookings[j].totalPrice = 900
       /\ DOMAIN bookings = {i, j}
  /\ getDashboardStats("2024-06-01").revenueToday = 600
  /\ getDashboardStats("2024-06-02").revenueToday = 0

(***************************************************************************)
(* C16: activeBookings is the number of bookings whose status is CONFIRMED *)
(* or PENDING; a create answered 201 raises it by one, a cancel answered   *)
(* 200 lowers it by one, and a request answered with an error leaves it as *)
(* it was.                                                                 *)
(***************************************************************************)
ActiveIds == { id \in DOMAIN bookings : Active(bookings[id]) }

C16_Count == ActiveBookingsStat = Cardinality(ActiveIds)

\* with C16_Count in the state before every step, the number of active
\* bookings after the step is what the dashboard then reports
C16_Step ==
  /\ C16_Count
  /\ (last'.op = "postBooking" /\ last'.status = 201)
       => Cardinality(ActiveIds') = ActiveBookingsStat + 1
  /\ (last'.op \in CancelOps /\ last'.status = 200)
       => Cardinality(ActiveIds') = ActiveBookingsStat - 1
  /\ last'.status >= 400 => Cardinality(ActiveIds') = ActiveBookingsStat

C16_ActiveBookingsCount == [][C16_Step]_vars

\* one of two bookings was just cancelled: one active booking is counted
C16_Witness ==
  /\ CancelSucceeded
  /\ Cardinality(DOMAIN bookings) = 2
  /\ ActiveBookingsStat = 1

(***************************************************************************)
(* C17: occupiedSpots is the number of spots whose isAvailable flag is     *)
(* false, and no create or cancel request changes it.                      *)
(***************************************************************************)
SwitchedOffIds == { id \in DOMAIN parkingSpots : ~parkingSpots[id].isAvailable }

C17_Count == OccupiedSpotsStat = Cardinality(SwitchedOffIds)

\* with C17_Count in the state before every step, the number of switched-off
\* spots after the step is what the dashboard then reports
C17_Step ==
  /\ C17_Count
  /\ last'.op \in BookingRouteOps
       => Cardinality(SwitchedOffIds') = OccupiedSpotsStat

C17_OccupiedSpotsFromFlag == [][C17_Step]_vars

\* A1 was switched off while it holds a confirmed booking, and a booking was
\* cancelled since: four spots are counted, the three of the seeding and A1
C17_Witness ==
  /\ CancelSucceeded
  /\ OccupiedSpotsStat = 4
  /\ ~parkingSpots[1].isAvailable
  /\ \E b \in Values(bookings) : b.status = "CONFIRMED" /\ b.spotId = 1

(***************************************************************************)
(* C18: occupancyByHour has 24 entries, entry h + 1 labelled with hour h   *)
(* as "HH:00" for h = 0..23, its count the number of non-cancelled         *)
(* bookings of any date whose start time has hour h; the counts add up to  *)
(* the number of non-cancelled bookings.                                   *)
(***************************************************************************)
RECURSIVE SumCounts(_)
SumCounts(entries) ==
  IF entries = <<>> THEN 0 ELSE Head(entries).count + SumCounts(Tail(entries))

StartHour(b) == 10 * DigitValue(b.startTime[1]) + DigitValue(b.startTime[2])

C18_OccupancyByHour ==
  \A today \in Dates :
    LET entries == getDashboardStats(today).occupancyByHour
    IN /\ Len(entries) = 24
       /\ \A h \in 0..23 :
            /\ Len(entries[h + 1].hour) = 5
            /\ 10 * DigitValue(entries[h + 1].hour[1])
                 + DigitValue(entries[h + 1].hour[2]) = h
            /\ SubSeq(entries[h + 1].hour, 3, 5) = <<":", "0", "0">>
            /\ entries[h + 1].count
                 = Cardinality({ id \in NotCancelledIds : StartHour(bookings[id]) = h })
       /\ SumCounts(entries) = Cardinality(NotCancelledIds)

\* a confirmed booking at 10:00 and a cancelled one at 12:00: one booking is
\* counted in hour 10 and none in hour 12
C18_Witness ==
  /\ \E i, j \in DOMAIN bookings :
       /\ bookings[i].status = "CONFIRMED" /\ bookings[i].startTime = TenOClock
       /\ bookings[j].status = "CANCELLED" /\ bookings[j].startTime = TwelveOClock
       /\ DOMAIN bookings = {i, j}
  /\ getDashboardStats("2024-06-01").occupancyByHour[11].count = 1
  /\ getDashboardStats("2024-06-01").occupancyByHour[13].count = 0

(***************************************************************************)
(* C20: a delete request of an administrator for a spot that exists is     *)
(* answered 400 and changes nothing when some booking of any status, a     *)
(* cancelled one included, names the spot; otherwise it is answered 200    *)
(* and removes that spot and nothing else.                                 *)
(***************************************************************************)
C20_Step ==
  (/\ last'.op = "deleteSpot"
   /\ authMiddleware(last'.sess) = 0
   /\ users[last'.sess].isAdmin
   /\ last'.body.id \in DOMAIN parkingSpots)
    => LET id == last'.body.id
       IN IF \E b \in Values(bookings) : b.spotId = id
            THEN /\ last'.status = 400
                 /\ UNCHANGED store
          ELSE /\ last'.status = 200
               /\ DOMAIN parkingSpots' = DOMAIN parkingSpots \ {id}
               /\ \A k \in DOMAIN parkingSpots' : parkingSpots'[k] = parkingSpots[k]
               /\ UNCHANGED <<users, userIdCounter, spotIdCounter, bookings, bookingIdCounter>>

C20_SpotDeleteRefusedWhenReferenced == [][C20_Step]_vars

\* the delete of A1 was refused although its only booking is cancelled
C20_Witness ==
  /\ last.op = "deleteSpot"
  /\ last.status = 400
  /\ last.body.id \in DOMAIN parkingSpots
  /\ bookings # NoBookings
  /\ \A b \in Values(bookings) : b.spotId = last.body.id /\ b.status = "CANCELLED"

(***************************************************************************)
(* C19: recentBookings has min(5, n) entries, n the number of bookings     *)
(* whose user and spot both exist; each entry is one of those bookings,    *)
(* cancelled ones included, with its label: Active for CONFIRMED, Upcoming *)
(* for PENDING, Completed for COMPLETED, Cancelled for CANCELLED; the      *)
(* entries are in descending order of createdAt, and no booking left out   *)
(* has a later createdAt than one that is shown.                           *)
(***************************************************************************)
ResolvedIds ==
  { id \in DOMAIN bookings :
      /\ bookings[id].userId \in DOMAIN users
      /\ bookings[id].spotId \in DOMAIN parkingSpots }

AdminPostSpotStep ==
  /\ last'.op = "postSpot"
  /\ authMiddleware(last'.sess) = 0
  /\ users[last'.sess].isAdmin

\* the step answers an edit request of the administrator for a spot that exists
AdminPutSpotStep ==
  /\ last'.op = "putSpot"
  /\ authMiddleware(last'.sess) = 0
  /\ users[last'.sess].isAdmin
  /\ last'.body.id \in DOMAIN parkingSpots

HasSpotFields(body) ==
  {"spotNumber", "level", "type", "pricePerHour"} \subseteq DOMAIN body

(***************************************************************************)
(* C23: no two distinct spots have the same spot number, before and after  *)
(* every step of the spot routes; a create whose spot number is taken, and *)
(* an edit whose spot number is taken by another spot, is answered 409     *)
(* and changes nothing.                                                    *)
(***************************************************************************)
UniqueSpotNumbers ==
  \A i, j \in DOMAIN parkingSpots :
    i # j => parkingSpots[i].spotNumber # parkingSpots[j].spotNumber

NumberTakenByOther(spotNumber, id) ==
  \E k \in DOMAIN parkingSpots \ {id} : parkingSpots[k].spotNumber = spotNumber

C23_Step ==
  /\ UniqueSpotNumbers
  /\ \A i, j \in DOMAIN parkingSpots' :
       i # j => parkingSpots'[i].spotNumber # parkingSpots'[j].spotNumber
  /\ (/\ AdminPostSpotStep
      /\ HasSpotFields(last'.body)
      /\ NumberTakenByOther(last'.body.spotNumber, 0))
       => /\ last'.status = 409
          /\ UNCHANGED store
  /\ (/\ AdminPutSpotStep
      /\ HasSpotFields(last'.body.spot)
      /\ last'.body.spot.level >= 1
      /\ last'.body.spot.pricePerHour >= 0
      /\ NumberTakenByOther(last'.body.spot.spotNumber, last'.body.id))
       => /\ last'.status = 409
          /\ UNCHANGED store

C23_UniqueSpotNumbers == [][C23_Step]_vars

\* A1 was renamed C1, a new spot A1 was created, and a second create of A1
\* was answered 409
C23_Witness ==
  /\ last.op = "postSpot"
  /\ last.status = 409
  /\ last.body.spotNumber = "A1"
  /\ 1 \in DOMAIN parkingSpots
  /\ parkingSpots[1].spotNumber = "C1"
  /\ \E k \in DOMAIN parkingSpots : k > 12 /\ parkingSpots[k].spotNumber = "A1"

(***************************************************************************)
(* C24: every spot has level >= 1 and pricePerHour >= 0, every booking of  *)
(* a positive duration has totalPrice >= 0, and a create or edit request   *)
(* whose level is below 1 or whose price is negative is answered 400 and   *)
(* changes nothing.                                                        *)
(***************************************************************************)
SpotsWithinRange(spots) ==
  \A id \in DOMAIN spots : spots[id].level >= 1 /\ spots[id].pricePerHour >= 0

OutOfRange(spot) ==
  /\ HasSpotFields(spot)
  /\ spot.level < 1 \/ spot.pricePerHour < 0

C24_Step ==
  /\ SpotsWithinRange(parkingSpots)
  /\ SpotsWithinRange(parkingSpots')
  /\ \A b \in Values(bookings) : b.duration > 0 => b.totalPrice >= 0
  /\ (AdminPostSpotStep /\ OutOfRange(last'.body))
       => last'.status = 400 /\ UNCHANGED store
  /\ (AdminPutSpotStep /\ OutOfRange(last'.body.spot))
       => last'.status = 400 /\ UNCHANGED store

C24_SpotLevelAndPriceInRange == [][C24_Step]_vars

(***************************************************************************)
(* C25: every stored booking has a duration of at least one hour.          *)
(***************************************************************************)
C25_DurationPositive == \A b \in Values(bookings) : b.duration >= 1

(***************************************************************************)
(* C30: an edit of a spot by the administrator, accepted or rejected,      *)
(* leaves every booking as it was: totalPrice, status and all other        *)
(* fields.                                                                 *)
(***************************************************************************)
C30_Step == last'.op = "putSpot" => bookings' = bookings

C30_SpotEditLeavesBookings == [][C30_Step]_vars

\* A1 was just edited; its confirmed booking of 2 hours still costs 6.0, two
\* hours at the price of 3.0 it was made at, while A1 now costs 4.5 an hour
C30_Witness ==
  /\ last.op = "putSpot"
  /\ last.status = 200
  /\ 1 \in DOMAIN parkingSpots
  /\ parkingSpots[1].pricePerHour = 450
  /\ \E b \in Values(bookings) :
       /\ b.spotId = 1
       /\ b.status = "CONFIRMED"
       /\ b.duration = 2
       /\ b.totalPrice = 600

(***************************************************************************)
(* C21: a create or cancel request of a signed-in user whose precondition  *)
(* fails is answered with the error of the first precondition that fails,  *)
(* never with a success, and the errors of the five kinds differ from one  *)
(* another in status or message.  The preconditions of a create are: the   *)
(* body is well-formed, the spot exists, the spot is switched on and no    *)
(* non-cancelled booking of it overlaps the window; those of a cancel: the *)
(* booking exists, the requester owns it or is an administrator, it is     *)
(* neither CANCELLED nor COMPLETED.                                        *)
(***************************************************************************)
ErrorKinds == {"VALIDATION", "NOT_FOUND", "CONFLICT", "FORBIDDEN", "INVALID_STATE"}

\* the precondition of the create that fails first, "" when all hold
CreateFailure(body) ==
  IF ~({"spotId", "date", "startTime", "duration"} \subseteq DOMAIN body)
    THEN "VALIDATION"
  ELSE IF body.spotId \notin DOMAIN parkingSpots THEN "NOT_FOUND"
  ELSE IF \/ ~parkingSpots[body.spotId].isAvailable
          \/ \E b \in Values(bookings) :
               BookingOverlapsWindow(b, body.spotId, body.date,
                                     body.startTime, body.duration)
    THEN "CONFLICT"
  ELSE ""

\* the precondition of the cancel that fails first, "" when all hold
CancelFailure(sess, id) ==
  IF id \notin DOMAIN bookings THEN "NOT_FOUND"
  ELSE IF ~OwnerOrAdmin(sess, bookings[id]) THEN "FORBIDDEN"
  ELSE IF bookings[id].status \in {"CANCELLED", "COMPLETED"} THEN "INVALID_STATE"
  ELSE ""

\* the kinds a response can be taken for by its status and message
KindsOfResponse(op, response) ==
  { kind \in ErrorKinds :
      \/ kind = "VALIDATION" /\ response.status = 400
           /\ response.message = "Invalid booking data"
      \/ kind = "NOT_FOUND" /\ response.status = 404
           /\ response.message
                = (IF op = "postBooking" THEN "Parking spot not found"
                   ELSE "Booking not found")
      \/ kind = "CONFLICT" /\ response.status = 400
           /\ response.message = ConflictMessage
      \/ kind = "FORBIDDEN" /\ response.status = 403
           /\ response.message = "Not authorized to cancel this booking"
      \/ kind = "INVALID_STATE" /\ response.status = 400
           /\ response.message = "Booking cannot be cancelled" }

C21_Step ==
  /\ (last'.op = "postBooking" /\ authMiddleware(last'.sess) = 0)
       => LET failure == CreateFailure(last'.body)
          IN IF failure = "" THEN last'.status = 201
             ELSE /\ last'.status >= 400
                  /\ KindsOfResponse("postBooking", last') = {failure}
  /\ (last'.op = "deleteBooking" /\ authMiddleware(last'.sess) = 0)
       => LET failure == CancelFailure(last'.sess, last'.body.id)
          IN IF failure = "" THEN last'.status = 200
             ELSE /\ last'.status >= 400
                  /\ KindsOfResponse("deleteBooking", last') = {failure}

C21_ErrorsDistinguishable == [][C21_Step]_vars

(***************************************************************************)
(* C29: for every cancelled booking of spot S on date D with window W,     *)
(* getAvailableParkingSpots(D, W) contains S and a create request for S,   *)
(* D and W is answered 201 and stored, provided S exists, is switched on   *)
(* and no non-cancelled booking of S on D overlaps W.                      *)
(***************************************************************************)
WindowFree(spotId, date, startTime, duration) ==
  /\ spotId \in DOMAIN parkingSpots
  /\ parkingSpots[spotId].isAvailable
  /\ \A o \in Values(bookings) :
       ~BookingOverlapsWindow(o, spotId, date, startTime, duration)

SameWindow(b, body) ==
  /\ b.spotId = body.spotId
  /\ b.date = body.date
  /\ b.startTime = body.startTime
  /\ b.duration = body.duration

C29_Step ==
  /\ \A b \in Values(bookings) :
       (b.status = "CANCELLED" /\ WindowFree(b.spotId, b.date, b.startTime, b.duration))
         => b.spotId \in AvailableIds(b.date, b.startTime, b.duration)
  /\ (/\ PostBookingStep
      /\ \E b \in Values(bookings) : b.status = "CANCELLED" /\ SameWindow(b, last'.body)
      /\ WindowFree(last'.body.spotId, last'.body.date,
                    last'.body.startTime, last'.body.duration))
       => /\ last'.status = 201
          /\ last'.created \in DOMAIN bookings' \ DOMAIN bookings
          /\ bookings'[last'.created].status = "CONFIRMED"
          /\ SameWindow(bookings'[last'.created], last'.body)

C29_CancelFreesWindow == [][C29_Step]_vars

\* the window of a cancelled booking was just booked again
C29_Witness ==
  /\ PostBookingAccepted
  /\ \E b \in Values(bookings) :
       /\ b.id < last.created
       /\ b.status = "CANCELLED"
       /\ SameWindow(b, last.body)
  /\ bookings[last.created].status = "CONFIRMED"

(***************************************************************************)
(* Accounts: the addresses of two users, compared ignoring letter case.    *)
(***************************************************************************)
SameAddress(a, b) == toLowerCase(a) = toLowerCase(b)

UniqueEmails ==
  \A a, b \in DOMAIN users :
    a # b => ~SameAddress(users[a].email, users[b].email)

\* the step answered a registration whose address is the one of a user
RegisterWouldCollide ==
  /\ last'.op = "register"
  /\ RegisterSchemaValid(last'.body)
  /\ \E id \in DOMAIN users : SameAddress(users[id].email, last'.body.email)

\* the step answered an administrator's valid update of an existing user
\* whose new address is the one of another user
PutUserWouldCollide ==
  /\ last'.op = "putUser"
  /\ authMiddleware(last'.sess) = 0
  /\ adminMiddleware(last'.sess) = 0
  /\ last'.body.id \in DOMAIN users
  /\ UserBodyValid(last'.body.user)
  /\ \E id \in DOMAIN users \ {last'.body.id} :
       SameAddress(users[id].email, last'.body.user.email)

\* C22: under registrations and administrator's user updates served one at
\* a time, no two distinct users have addresses equal ignoring letter case,
\* and a registration or update that would make such a pair is answered
\* 409 (CONFLICT) and leaves the users as they were.
C22_EmailsUniqueIgnoringCase ==
  [][/\ UniqueEmails
     /\ \A a, b \in DOMAIN users' :
          a # b => ~SameAddress(users'[a].email, users'[b].email)
     /\ (RegisterWouldCollide \/ PutUserWouldCollide)
          => last'.status = 409 /\ users' = users]_vars

\* the registration of "Ann@p.io" was refused because "ann@p.io" is
\* registered
C22_Witness ==
  /\ last.op = "register"
  /\ last.status = 409
  /\ last.body.email = AnnEmailCapital
  /\ \E id \in DOMAIN users : users[id].email = AnnEmail

(***************************************************************************)
(* Deactivated accounts.                                                   *)
(***************************************************************************)
\* the users a login with this address is an attempt for
AccountsOf(email) ==
  { id \in DOMAIN users : SameAddress(users[id].email, email) }

\* the step switched the active flag of this user off
Deactivated(id) ==
  /\ id \in DOMAIN users
  /\ users[id].isActive
  /\ ~users'[id].isActive

\* C26: while a user's active flag is false every login attempt for that
\* user is answered 401 and opens no session, with the right password too;
\* and the step that switches the flag off leaves the status of every
\* booking of that user as it was.
C26_DeactivatedCannotLogin ==
  [][/\ ( /\ last'.op = "login"
          /\ LoginSchemaValid(last'.body)
          /\ \E id \in AccountsOf(last'.body.email) : ~users[id].isActive )
          => ( /\ last'.status = 401
               /\ last'.sess = 0
               /\ users' = users )
     /\ \A id \in DOMAIN users :
          Deactivated(id) =>
            \A b \in DOMAIN bookings :
              bookings[b].userId = id =>
                /\ b \in DOMAIN bookings'
                /\ bookings'[b].status = bookings[b].status]_vars

\* a deactivated user who holds a confirmed booking was refused with the
\* right password
C26_Witness ==
  /\ last.op = "login"
  /\ last.status = 401
  /\ last.message = "This account has been deactivated"
  /\ \E id \in DOMAIN users :
       /\ SameAddress(users[id].email, last.body.email)
       /\ ~users[id].isActive
       /\ comparePassword(last.body.password, users[id].password)
       /\ \E b \in DOMAIN bookings :
            bookings[b].userId = id /\ bookings[b].status = "CONFIRMED"

(***************************************************************************)
(* Cancellations that interleave with other requests.                      *)
(***************************************************************************)
\* the slot holds a cancellation that has been told it succeeded
CancelAnswered(r) ==
  /\ pending[r].pc = "done"
  /\ "id" \in DOMAIN pending[r].body
  /\ pending[r].status = 200

\* the record with nothing but its status changed to CANCELLED
Cancelled(booking) == [booking EXCEPT !.status = "CANCELLED"]

\* C27: whatever the interleaving of cancellations with availability reads
\* and booking creations, a step leaves each stored booking as it was or
\* turns a CONFIRMED one into the same record with status CANCELLED, so no
\* request reads anything between the two; and a booking whose cancellation
\* was answered with success, by one request or by two concurrent ones, is
\* the record the route read with status CANCELLED and nothing else changed.
C27_CancelIsAtomic ==
  [][/\ \A b \in DOMAIN bookings :
          /\ b \in DOMAIN bookings'
          /\ \/ bookings'[b] = bookings[b]
             \/ /\ bookings[b].status = "CONFIRMED"
                /\ bookings'[b] = Cancelled(bookings[b])
     /\ \A r \in 1..MaxInFlight :
          CancelAnswered(r) =>
            bookings[pending[r].body.id] = Cancelled(pending[r].body.booking)]_vars

\* two cancellations of the same booking ran concurrently, each read it as
\* CONFIRMED, and both have been answered with success
C27_Witness ==
  /\ CancelAnswered(1)
  /\ CancelAnswered(2)
  /\ pending[1].body.id = pending[2].body.id
  /\ pending[1].body.booking.status = "CONFIRMED"
  /\ pending[2].body.booking.status = "CONFIRMED"
  /\ bookings[pending[1].body.id].status = "CANCELLED"

(***************************************************************************)
(* References of a booking to its spot and its user.                       *)
(***************************************************************************)
Resolves(booking) ==
  /\ booking.spotId \in DOMAIN parkingSpots
  /\ parkingSpots[booking.spotId].id = booking.spotId
  /\ booking.userId \in DOMAIN users
  /\ users[booking.userId].id = booking.userId

\* C28: under booking creation and cancellation, spot creation, edit and
\* deletion, registration and user update, served one at a time, every
\* booking names a spot that is stored and a user that is stored.
C28_ReferentialIntegrity == \A id \in DOMAIN bookings : Resolves(bookings[id])

\* the deletion of the created spot was refused while a registered user's
\* cancelled booking names it, after that user was edited
C28_Witness ==
  /\ last.op = "deleteSpot"
  /\ last.status = 400
  /\ last.body.id = 13
  /\ \E id \in DOMAIN bookings :
       /\ bookings[id].spotId = 13
       /\ bookings[id].userId = 2
       /\ bookings[id].status = "CANCELLED"
       /\ users[2].email = BobEmail
       /\ ~users[2].isActive

====
